---- MODULE Spec2Model ----
(***************************************************************************)
(* Motor-skills telemetry backend: bucketed stores for pointer samples and *)
(* attempts (MotorPointerTraceBucket, MotorAttemptBucket), the ingestion   *)
(* controllers that acknowledge a batch and persist it in a background     *)
(* task, the attempt enrichment, and the round/session aggregator.         *)
(*                                                                         *)
(* Numbers.  Timestamps are integer milliseconds.  Coordinates are integers*)
(* in units of 0.001 of the normalised screen, and the pointer moves along *)
(* the x axis (y = 0), so every Euclidean distance Math.hypot(dx, 0) is    *)
(* |dx| exactly.  Every derived number is a rational <<num, den>> in       *)
(* lowest terms with den > 0; JavaScript null/undefined is Null.           *)
(***************************************************************************)
EXTENDS Integers, Sequences, FiniteSets, TLC

\* ---------------------------------------------------------------- bounds
\* MAX_TRACE_SAMPLES_PER_BUCKET is 5000 and MAX_ATTEMPTS_PER_BUCKET is 2000
\* in the source (MotorPointerTraceBucket.js:15, MotorAttemptBucket.js:15);
\* the model scales both capacities down so that roll-over happens.
MAX_TRACE_SAMPLES_PER_BUCKET == 2
MAX_ATTEMPTS_PER_BUCKET == 2
\* Longest batch a request carries.
MaxBatch == 3
\* Number of ingestion requests (each with its own background task).
MaxTasks == 2
\* Number of summary-API calls in progress at the same time.
MaxCalls == 2

\* ------------------------------------------------------------- rationals
Null == <<>>

Abs(n) == IF n < 0 THEN -n ELSE n

RECURSIVE Gcd(_, _)
Gcd(a, b) == IF b = 0 THEN a ELSE Gcd(b, a % b)

\* n / d in lowest terms, d # 0
Rat(n, d) ==
  LET g == Gcd(Abs(n), Abs(d))
      s == IF d < 0 THEN -1 ELSE 1
  IN  <<(s * n) \div g, (s * d) \div g>>

RInt(n) == <<n, 1>>
RAdd(a, b) == Rat(a[1] * b[2] + b[1] * a[2], a[2] * b[2])
RSub(a, b) == Rat(a[1] * b[2] - b[1] * a[2], a[2] * b[2])
RDiv(a, b) == Rat(a[1] * b[2], a[2] * b[1])
RLess(a, b) == a[1] * b[2] < b[1] * a[2]
RLeq(a, b) == a[1] * b[2] <= b[1] * a[2]
RMax(a, b) == IF RLess(a, b) THEN b ELSE a

\* ------------------------------------------------------ sequence helpers
SeqSum(s) ==
  LET RECURSIVE go(_)
      go(i) == IF i = 0 THEN RInt(0) ELSE RAdd(go(i - 1), s[i])
  IN  go(Len(s))

RECURSIVE Flatten(_)
Flatten(ss) == IF ss = <<>> THEN <<>> ELSE Head(ss) \o Flatten(Tail(ss))

Range(s) == {s[i] : i \in 1..Len(s)}

\* ------------------------------------------------------------ input data
\* `!x` of JavaScript: a missing or empty string
NoId == ""
\* an undefined timestamp (click.tms of an attempt that was never clicked)
NoTms == -1

SessionIds == {"s1"}

\* PointerSample {round, tms, x, y}; y = 0 throughout (see the header)
Sample(r, t, px) == [round |-> r, tms |-> t, x |-> px]

\* The pointer stream a client records for a session, in recording order:
\* at rest until t = 20, then a move along x to 30, where it stays.
Trace ==
  << Sample(1, 10, 0), Sample(1, 20, 0), Sample(1, 30, 20),
     Sample(1, 40, 30), Sample(1, 50, 30) >>

\* A pointer that never moves: at rest at x = 0 from t = 10 to t = 50.
Still ==
  << Sample(1, 10, 0), Sample(1, 20, 0), Sample(1, 30, 0),
     Sample(1, 40, 0), Sample(1, 50, 0) >>

\* A pointer sampled every 4 ms that passes through x = 0.030 twice: it moves
\* out to 0.040 and back, rests, falls back to 0.020 and goes out and back
\* once more.
Overshoot ==
  << Sample(1, 10, 0), Sample(1, 14, 20), Sample(1, 18, 30), Sample(1, 22, 40),
     Sample(1, 26, 30), Sample(1, 30, 30), Sample(1, 34, 30), Sample(1, 38, 20),
     Sample(1, 42, 30), Sample(1, 46, 40), Sample(1, 50, 30) >>

\* Attempt as the client submits it.  hasTarget = FALSE is a record whose
\* `target` is missing; reactionTimeMs is the client's own timing block.
ClientAttempt(id, r, spawn, hasT, tx, rad, clicked, hit, ctms, rt) ==
  [ attemptId |-> id, round |-> r, spawnTms |-> spawn,
    hasTarget |-> hasT, target |-> [x |-> tx, radius |-> rad],
    click |-> [clicked |-> clicked, hit |-> hit, tms |-> ctms],
    reactionTimeMs |-> rt ]

\* The attempts a client submits for a session, in submission order.
AttemptPool ==
  << ClientAttempt("a1", 1, 10, TRUE, 30, 5, TRUE, TRUE, 50, Null),
     ClientAttempt("a2", 1, 10, TRUE, 40, 0, TRUE, FALSE, 40, Null),
     ClientAttempt("a3", 2, 45, TRUE, 30, 5, FALSE, FALSE, NoTms, RInt(7)),
     ClientAttempt("a4", 1, 10, FALSE, 0, 0, TRUE, TRUE, 50, Null),
     ClientAttempt("a5", 3, 20, TRUE, 30, 15, TRUE, TRUE, 50, Null) >>

Slice(s, from, k) == SubSeq(s, from + 1, from + k)

\* ------------------------------------------------- attempt feature extractor
\* EPS = 0.003 in units of 0.001
EPS == 3
\* the movement-time floor of the throughput, 0.05 s
MinMovementSec == Rat(5, 100)

\* dist(a, b) = Math.hypot(a.x - b.x, a.y - b.y) with a.y = b.y
dist(a, b) == Abs(a.x - b.x)

\* Math.log2 on the powers of two, the only arguments the input data yields
\* (TLC stops on any other argument)
Log2(q) == RInt(CHOOSE k \in 0..4 : q = RInt(2 ^ k))

NoTiming == [reactionTimeMs |-> Null, movementTimeMs |-> Null, interTapMs |-> Null]
NoSpatial ==
  [errorDistNorm |-> Null, pathLengthNorm |-> Null, directDistNorm |-> Null,
   straightness |-> Null]
NoKinematics == [meanSpeed |-> Null, peakSpeed |-> Null, overshootCount |-> Null]
NoFitts == [D |-> Null, W |-> Null, ID |-> Null, throughput |-> Null]

\* index (1-based) of the sample before the first one displaced by more
\* than EPS from seg[1]; 1 when there is none
MoveStartIdx(seg) ==
  LET moved == {i \in 2..Len(seg) : dist(seg[i], seg[1]) > EPS}
  IN  IF moved = {} THEN 1
      ELSE (CHOOSE i \in moved : \A j \in moved : i <= j) - 1

\* speed[] of step 4.1: |dx| / dt per step with dt > 0, in 0.001 units per second
Speeds(moveSeg) ==
  LET steps == SelectSeq([i \in 1..(Len(moveSeg) - 1) |-> i + 1],
                         LAMBDA i : moveSeg[i].tms - moveSeg[i - 1].tms > 0)
  IN  [k \in 1..Len(steps) |->
        Rat(Abs(moveSeg[steps[k]].x - moveSeg[steps[k] - 1].x) * 1000,
            moveSeg[steps[k]].tms - moveSeg[steps[k] - 1].tms)]

SeqMax(s) == CHOOSE m \in Range(s) : \A v \in Range(s) : RLeq(v, m)

PathLength(moveSeg) ==
  LET RECURSIVE go(_)
      go(i) == IF i <= 1 THEN 0 ELSE go(i - 1) + dist(moveSeg[i - 1], moveSeg[i])
  IN  go(Len(moveSeg))

\* (a variant that takes three samples for enough)
TooFewBelowThree(seg) == Len(seg) < 3

\* seg.length < 4: not enough samples for the extraction
TooFew(seg) == Len(seg) < 4

\* d = moveSeg.map(s => dist(s, target))
DistToTarget(moveSeg, target) ==
  [i \in 1..Len(moveSeg) |-> dist(moveSeg[i], target)]

\* ddPrev < -0.001 && dd > 0.001 at index i (1-based) of the distances d:
\* the pointer was approaching and now recedes
Reversal(d, i) == d[i - 1] - d[i - 2] < -1 /\ d[i] - d[i - 1] > 1

\* Method 1: reversals of the distance to the target inside the gate
distanceReversals(d, gate) ==
  Cardinality({i \in 3..Len(d) : Reversal(d, i) /\ d[i] < gate})

\* Method 2: reversals in the last 30% of a moving segment of more than 5
\* samples; finalPhaseStart = Math.floor(moveSeg.length * 0.7)
finalPhaseOvershoots(moveSeg, target) ==
  IF Len(moveSeg) > 5
  THEN LET finalPhaseStart == (Len(moveSeg) * 7) \div 10
           finalSeg == SubSeq(moveSeg, finalPhaseStart + 1, Len(moveSeg))
           finalD == DistToTarget(finalSeg, target)
       IN  Cardinality({i \in 3..Len(finalD) : Reversal(finalD, i)})
  ELSE 0

\* Method 3: back-and-forth steps of more than 0.002 along x inside the gate,
\* for a moving segment of more than 4 samples (y is constant)
oscillationCount(moveSeg, d, gate) ==
  IF Len(moveSeg) > 4
  THEN Cardinality(
         {i \in 4..Len(moveSeg) :
            LET dxPrev == moveSeg[i - 1].x - moveSeg[i - 2].x
                dx == moveSeg[i].x - moveSeg[i - 1].x
            IN  /\ d[i] < gate
                /\ \/ dxPrev > 2 /\ dx < -2
                   \/ dxPrev < -2 /\ dx > 2})
  ELSE 0

\* (a variant that takes the smallest of the three counts)
overshootMin(a, b, c) ==
  CHOOSE m \in {a, b, c} : \A v \in {a, b, c} : m <= v

\* Math.max(overshootCount, finalPhaseOvershoots, oscillationCount)
overshootMax(a, b, c) ==
  CHOOSE m \in {a, b, c} : \A v \in {a, b, c} : v <= m

\* (a variant that divides by a path length of at least one unit)
StraightnessFloored(directDist, pathLength) ==
  Rat(directDist, IF pathLength > 0 THEN pathLength ELSE 1)

\* pathLength > 0 ? (directDist / pathLength) : null
Straightness(directDist, pathLength) ==
  IF pathLength > 0 THEN Rat(directDist, pathLength) ELSE Null

\* (a variant that divides by a radius of at least one unit)
errorDistNormFloored(errorDist, radius) ==
  Rat(errorDist, IF radius > 0 THEN radius ELSE 1)

\* target.radius > 0 ? (errorDist / target.radius) : null
errorDistNorm(errorDist, radius) ==
  IF radius > 0 THEN Rat(errorDist, radius) ELSE Null

\* extractAttemptFeatures({samples, spawnTms, clickTms, target, prevClickTms}).
\* threw = TRUE models the TypeError of reading a missing target.
\* (kinematics carries meanSpeed, peakSpeed and overshootCount.)
extractAttemptFeatures(samples, spawnTms, clickTms, hasTarget, target, prevClickTms) ==
  LET seg == SelectSeq(samples, LAMBDA s : s.tms >= spawnTms /\ s.tms <= clickTms)
      interTapMs == IF prevClickTms # NoTms THEN RInt(clickTms - prevClickTms) ELSE Null
  IN
  IF TooFew(seg) THEN
    [ threw |-> FALSE,
      timing |-> [reactionTimeMs |-> RInt(clickTms - spawnTms),
                  movementTimeMs |-> Null, interTapMs |-> interTapMs],
      spatial |-> NoSpatial, kinematics |-> NoKinematics, fitts |-> NoFitts ]
  ELSE IF ~hasTarget THEN
    [ threw |-> TRUE, timing |-> NoTiming, spatial |-> NoSpatial,
      kinematics |-> NoKinematics, fitts |-> NoFitts ]
  ELSE
    LET moveSeg == SubSeq(seg, MoveStartIdx(seg), Len(seg))
        moveStart == moveSeg[1]
        moveEnd == moveSeg[Len(moveSeg)]
        movementTimeMs == moveEnd.tms - moveStart.tms
        pathLength == PathLength(moveSeg)
        directDist == dist(moveStart, target)
        errorDist == dist(moveEnd, target)
        speed == Speeds(moveSeg)
        meanSpeed ==
          IF Len(speed) > 0 THEN RDiv(SeqSum(speed), RInt(Len(speed))) ELSE Null
        peakSpeed == IF Len(speed) > 0 THEN SeqMax(speed) ELSE Null
        d == DistToTarget(moveSeg, target)
        gate == 4 * target.radius
        overshootCount ==
          overshootMax(distanceReversals(d, gate),
                       finalPhaseOvershoots(moveSeg, target),
                       oscillationCount(moveSeg, d, gate))
        W == 2 * target.radius
        ID == IF W > 0 THEN Log2(RAdd(Rat(directDist, W), RInt(1))) ELSE Null
        mtSec == RMax(Rat(movementTimeMs, 1000), MinMovementSec)
        throughput == IF ID # Null THEN RDiv(ID, mtSec) ELSE Null
    IN
    [ threw |-> FALSE,
      timing |-> [reactionTimeMs |-> RInt(clickTms - spawnTms),
                  movementTimeMs |-> RInt(movementTimeMs),
                  interTapMs |-> interTapMs],
      spatial |-> [errorDistNorm |-> errorDistNorm(errorDist, target.radius),
                   pathLengthNorm |-> RInt(pathLength),
                   directDistNorm |-> RInt(directDist),
                   straightness |-> Straightness(directDist, pathLength)],
      kinematics |-> [meanSpeed |-> meanSpeed, peakSpeed |-> peakSpeed,
                      overshootCount |-> overshootCount],
      fitts |-> [D |-> RInt(directDist), W |-> RInt(W), ID |-> ID,
                 throughput |-> throughput] ]

\* ------------------------------------------------------ attempt enrichment
\* buildBasicFeatures(attempt, prevClickTms); `x && y` is JavaScript
\* truthiness, so a timestamp of 0 counts as absent
buildBasicFeatures(attempt, prevClickTms) ==
  LET truthy(t) == t # NoTms /\ t # 0
      reactionTimeMs ==
        IF attempt.reactionTimeMs # Null THEN attempt.reactionTimeMs
        ELSE IF attempt.click.clicked /\ truthy(attempt.click.tms)
                /\ truthy(attempt.spawnTms)
             THEN RInt(attempt.click.tms - attempt.spawnTms)
             ELSE Null
      interTapMs ==
        IF truthy(prevClickTms) /\ truthy(attempt.click.tms)
        THEN RInt(attempt.click.tms - prevClickTms) ELSE Null
  IN  [ timing |-> [reactionTimeMs |-> reactionTimeMs, movementTimeMs |-> Null,
                    interTapMs |-> interTapMs],
        spatial |-> NoSpatial, kinematics |-> NoKinematics, fitts |-> NoFitts ]

\* {...attempt, ...features}: the stored attempt
Merge(attempt, f) ==
  [ attemptId |-> attempt.attemptId, round |-> attempt.round,
    spawnTms |-> attempt.spawnTms, hasTarget |-> attempt.hasTarget,
    target |-> attempt.target, click |-> attempt.click,
    timing |-> f.timing, spatial |-> f.spatial, kinematics |-> f.kinematics,
    fitts |-> f.fitts ]

\* (a variant that passes no previous click time to any position)
EnrichAttemptNoPrev(attemptsArray, idx, allSamples) ==
  LET attempt == attemptsArray[idx]
      basic == buildBasicFeatures(attempt, NoTms)
  IN  IF Len(allSamples) > 0 /\ attempt.click.clicked THEN
        LET f == extractAttemptFeatures(allSamples, attempt.spawnTms,
                   attempt.click.tms, attempt.hasTarget, attempt.target, NoTms)
        IN  IF f.threw THEN Merge(attempt, basic) ELSE Merge(attempt, f)
      ELSE Merge(attempt, basic)

\* (a variant that calls the extractor whenever samples are stored, clicked
\* or not)
EnrichAttemptAlwaysExtract(attemptsArray, idx, allSamples) ==
  LET attempt == attemptsArray[idx]
      prevClickTms == IF idx > 1 THEN attemptsArray[idx - 1].click.tms ELSE NoTms
      basic == buildBasicFeatures(attempt, prevClickTms)
  IN  IF Len(allSamples) > 0 THEN
        LET f == extractAttemptFeatures(allSamples, attempt.spawnTms,
                   attempt.click.tms, attempt.hasTarget, attempt.target,
                   prevClickTms)
        IN  IF f.threw THEN Merge(attempt, basic) ELSE Merge(attempt, f)
      ELSE Merge(attempt, basic)

\* enrichedAttempts = attemptsArray.map((attempt, idx) => ...)
EnrichAttempt(attemptsArray, idx, allSamples) ==
  LET attempt == attemptsArray[idx]
      prevClickTms == IF idx > 1 THEN attemptsArray[idx - 1].click.tms ELSE NoTms
      basic == buildBasicFeatures(attempt, prevClickTms)
  IN  IF Len(allSamples) > 0 /\ attempt.click.clicked THEN
        LET f == extractAttemptFeatures(allSamples, attempt.spawnTms,
                   attempt.click.tms, attempt.hasTarget, attempt.target,
                   prevClickTms)
        IN  IF f.threw THEN Merge(attempt, basic) ELSE Merge(attempt, f)
      ELSE Merge(attempt, basic)

enrichedAttempts(attemptsArray, allSamples) ==
  [idx \in 1..Len(attemptsArray) |-> EnrichAttempt(attemptsArray, idx, allSamples)]

\* ------------------------------------------------------------------ state
VARIABLES
  sessions,          \* Session collection: set of [sessionId, userId]
  traceBuckets,      \* MotorPointerTraceBucket collection: set of documents
  attemptBuckets,    \* MotorAttemptBucket collection: set of documents
  roundSummaries,    \* MotorRoundSummary collection
  sessionSummaries,  \* MotorSessionSummary collection
  tasks,             \* per ingestion request: the request, its response and
                     \* the position of its background task
  removal,           \* the session removal in progress (pre('remove') hook)
  sent,              \* per session: items of Trace / AttemptPool submitted
  history,           \* per session: items of completed append calls, in order
  summary,           \* the summary request in progress
  calls,             \* per summary-API call made concurrently: the call, its
                     \* position and its response
  extraction         \* a direct call of extractAttemptFeatures: its
                     \* arguments, its position and what it returned

vars ==
  << sessions, traceBuckets, attemptBuckets, roundSummaries, sessionSummaries,
     tasks, removal, sent, history, summary, calls, extraction >>

TaskIds == 1..MaxTasks

\* A bucket document.  An attempt bucket has no firstTms / lastTms in the
\* source; the model keeps them at their initial 0 there.
NewBucket(id, sessionId, userId, bucketNumber) ==
  [ id |-> id, sessionId |-> sessionId, userId |-> userId,
    bucketNumber |-> bucketNumber, count |-> 0, isFull |-> FALSE,
    firstTms |-> 0, lastTms |-> 0, items |-> <<>> ]

\* The in-memory copy a task holds of a bucket document: the document as
\* loaded, the items pushed since the last save (a $push on save) and the
\* scalar paths modified since then (a $set on save).
Local(doc) ==
  [ id |-> doc.id, sessionId |-> doc.sessionId, userId |-> doc.userId,
    bucketNumber |-> doc.bucketNumber, count |-> doc.count,
    isFull |-> doc.isFull, firstTms |-> doc.firstTms, lastTms |-> doc.lastTms,
    items |-> doc.items, pending |-> <<>>, dirty |-> {} ]

NoDoc == Local(NewBucket(0, NoId, NoId, 0))

IdleTask ==
  [ pc |-> "idle", kind |-> "none", sessionId |-> NoId, userId |-> NoId,
    isArray |-> FALSE, batch |-> <<>>, known |-> FALSE, enriched |-> <<>>,
    i |-> 0,
    doc |-> NoDoc, newNumber |-> 0, resp |-> <<>>, ops |-> 0 ]

Coll(kind) == IF kind = "samples" THEN traceBuckets ELSE attemptBuckets
Capacity(kind) ==
  IF kind = "samples" THEN MAX_TRACE_SAMPLES_PER_BUCKET ELSE MAX_ATTEMPTS_PER_BUCKET

SessionExists(sid) == \E s \in sessions : s.sessionId = sid

\* _id of a new document: not in the collection, not held by any task
FreshId(coll) ==
  LET used == {d.id : d \in coll} \cup {tasks[t].doc.id : t \in TaskIds}
  IN  CHOOSE n \in 1..(Cardinality(used) + 1) :
        n \notin used /\ \A m \in 1..(n - 1) : m \in used

\* findOne({sessionId, isFull: false}).sort({bucketNumber: -1}): the
\* candidates; documents with equal bucketNumber come in either order
ActiveBuckets(coll, sid) ==
  LET open == {d \in coll : d.sessionId = sid /\ ~d.isFull}
  IN  {d \in open : \A e \in open : e.bucketNumber <= d.bucketNumber}

\* (a variant that pushes the item and leaves bucket.count as it was)
PushNoCount(doc, item, kind) ==
  LET d1 == [doc EXCEPT !.items = Append(@, item), !.pending = Append(@, item)]
  IN  IF kind # "samples" THEN d1
      ELSE LET d3 == IF d1.firstTms = 0
                     THEN [d1 EXCEPT !.firstTms = item.tms,
                                     !.dirty = @ \cup {"firstTms"}]
                     ELSE d1
           IN  [d3 EXCEPT !.lastTms = item.tms, !.dirty = @ \cup {"lastTms"}]

\* bucket.samples.push(sample); bucket.count = bucket.samples.length;
\* and for samples the time range
Push(doc, item, kind) ==
  LET d1 == [doc EXCEPT !.items = Append(@, item), !.pending = Append(@, item)]
      d2 == [d1 EXCEPT !.count = Len(d1.items), !.dirty = @ \cup {"count"}]
  IN  IF kind # "samples" THEN d2
      ELSE LET d3 == IF d2.firstTms = 0
                     THEN [d2 EXCEPT !.firstTms = item.tms,
                                     !.dirty = @ \cup {"firstTms"}]
                     ELSE d2
           IN  [d3 EXCEPT !.lastTms = item.tms, !.dirty = @ \cup {"lastTms"}]

\* (a variant that tests `>` where the source tests `>=`)
RECURSIVE FillPastCapacity(_, _, _, _)
FillPastCapacity(doc, items, i, kind) ==
  IF i >= Len(items) \/ doc.count > Capacity(kind)
  THEN [doc |-> doc, i |-> i]
  ELSE FillPastCapacity(Push(doc, items[i + 1], kind), items, i + 1, kind)

\* The synchronous part of the `for` loop: push items i+1.. until the batch
\* ends or the bucket is found full before a push.
RECURSIVE Fill(_, _, _, _)
Fill(doc, items, i, kind) ==
  IF i >= Len(items) \/ doc.count >= Capacity(kind)
  THEN [doc |-> doc, i |-> i]
  ELSE Fill(Push(doc, items[i + 1], kind), items, i + 1, kind)

\* Schema validation of the attempts pushed (target.x, target.y and
\* target.radius are required)
ValidItems(items, kind) ==
  kind = "samples" \/ \A k \in 1..Len(items) : items[k].hasTarget

\* bucket.save() of a document that is not new: "ok", or the error thrown
SaveOutcome(coll, doc, kind) ==
  IF ~ValidItems(doc.pending, kind) THEN "ValidationError"
  ELSE IF ~\E d \in coll : d.id = doc.id THEN "DocumentNotFoundError"
  ELSE "ok"

\* (a variant that sets the array to the pending items instead of pushing)
ApplySaveOverwrite(coll, doc) ==
  { IF d.id # doc.id THEN d
    ELSE [d EXCEPT !.items = doc.pending, !.count = doc.count,
                   !.isFull = doc.isFull]
    : d \in coll }

\* the update save() sends: $push of the pending items, $set of the
\* modified scalar paths
ApplySave(coll, doc) ==
  { IF d.id # doc.id THEN d
    ELSE [ d EXCEPT
             !.items = @ \o doc.pending,
             !.count = IF "count" \in doc.dirty THEN doc.count ELSE @,
             !.isFull = IF "isFull" \in doc.dirty THEN doc.isFull ELSE @,
             !.userId = IF "userId" \in doc.dirty THEN doc.userId ELSE @,
             !.firstTms = IF "firstTms" \in doc.dirty THEN doc.firstTms ELSE @,
             !.lastTms = IF "lastTms" \in doc.dirty THEN doc.lastTms ELSE @ ]
    : d \in coll }

Saved(doc) == [doc EXCEPT !.pending = <<>>, !.dirty = {}]

\* find({sessionId}).sort({bucketNumber: 1}): every order the sort allows
SortedBuckets(coll, sid) ==
  LET mine == {d \in coll : d.sessionId = sid}
      n == Cardinality(mine)
  IN  { f \in [1..n -> mine] :
          /\ \A i, j \in 1..n : i # j => f[i] # f[j]
          /\ \A i, j \in 1..n : i < j => f[i].bucketNumber <= f[j].bucketNumber }

\* (a variant that returns every sample acknowledged so far, stored or not)
getSessionSamplesAcknowledged(order, round) ==
  LET sid == CHOOSE id \in SessionIds : TRUE
      all == SubSeq(Trace, 1, sent[sid]["samples"])
  IN  IF round # 0 THEN SelectSeq(all, LAMBDA s : s.round = round) ELSE all

\* getSessionSamples(sessionId, round): the samples of the buckets in the
\* order `order`, filtered by round unless round = 0 (null)
getSessionSamples(order, round) ==
  LET all == Flatten([k \in 1..Len(order) |-> order[k].items])
  IN  IF round # 0 THEN SelectSeq(all, LAMBDA s : s.round = round) ELSE all

\* (a variant that ignores the round)
getSessionAttemptsAnyRound(order, round) ==
  Flatten([k \in 1..Len(order) |-> order[k].items])

\* getSessionAttempts(sessionId, round), likewise
getSessionAttempts(order, round) ==
  LET all == Flatten([k \in 1..Len(order) |-> order[k].items])
  IN  IF round # 0 THEN SelectSeq(all, LAMBDA a : a.round = round) ELSE all

\* getSessionStats(sessionId) on the attempts getSessionAttempts(sessionId)
\* returned: per round 1..3 the counts and the averages, each average a sum of
\* (value || 0) divided by the number of attempts (of hits for throughput)
OrZero(v) == IF v = Null THEN RInt(0) ELSE v

avgOrZero(arr) ==
  IF Len(arr) > 0
  THEN RDiv(SeqSum([k \in 1..Len(arr) |-> OrZero(arr[k])]), RInt(Len(arr)))
  ELSE Null

getSessionStats(sessionId, allAttempts) ==
  [ sessionId |-> sessionId,
    total |-> Len(allAttempts),
    rounds |->
      [ round \in 1..3 |->
          LET attempts == SelectSeq(allAttempts, LAMBDA a : a.round = round)
              hits == SelectSeq(attempts, LAMBDA a : a.click.hit)
          IN  [ totalAttempts |-> Len(attempts),
                hits |-> Len(hits),
                misses |-> Len(attempts) - Len(hits),
                hitRate |-> IF Len(attempts) > 0
                            THEN Rat(Len(hits), Len(attempts)) ELSE RInt(0),
                avgReactionTime |->
                  avgOrZero([k \in 1..Len(attempts) |-> attempts[k].timing.reactionTimeMs]),
                avgMovementTime |->
                  avgOrZero([k \in 1..Len(attempts) |-> attempts[k].timing.movementTimeMs]),
                avgThroughput |->
                  avgOrZero([k \in 1..Len(hits) |-> hits[k].fitts.throughput]) ] ] ]

\* ------------------------------------------------------------- aggregator
\* arr.map(...).filter(v => v != null)
NonNull(arr) == SelectSeq(arr, LAMBDA v : v # Null)

\* const mean = arr => arr.length > 0 ? sum / arr.length : null
mean(arr) == IF Len(arr) > 0 THEN RDiv(SeqSum(arr), RInt(Len(arr))) ELSE Null

\* [...arr].sort((a, b) => a - b)
RECURSIVE SortAsc(_)
SortAsc(arr) ==
  IF arr = <<>> THEN <<>>
  ELSE LET m == CHOOSE i \in 1..Len(arr) :
                  /\ \A j \in 1..Len(arr) : RLeq(arr[i], arr[j])
                  /\ \A j \in 1..(i - 1) : arr[j] # arr[i]
       IN  <<arr[m]>> \o SortAsc(SubSeq(arr, 1, m - 1) \o SubSeq(arr, m + 1, Len(arr)))

\* const median = arr => ...; mid is the 0-based index Math.floor(length / 2)
median(arr) ==
  IF Len(arr) = 0 THEN Null
  ELSE LET sorted == SortAsc(arr)
           mid == Len(sorted) \div 2
       IN  IF Len(sorted) % 2 = 0
           THEN RDiv(RAdd(sorted[mid], sorted[mid + 1]), RInt(2))
           ELSE sorted[mid + 1]

\* a variant of the miss filter that keeps only the clicked misses
MissesClicked(attempts) ==
  SelectSeq(attempts, LAMBDA a : a.click.clicked /\ ~a.click.hit)

\* const misses = attempts.filter(a => !a.click.hit)
Misses(attempts) == SelectSeq(attempts, LAMBDA a : ~a.click.hit)

\* computeRoundFeatures after `attempts = await getSessionAttempts(sessionId,
\* round)`.  (The aggregates carried are the means, the timing medians and
\* the counts.)
computeRoundFeatures(attempts) ==
  IF Len(attempts) = 0 THEN Null
  ELSE
    LET hits == SelectSeq(attempts, LAMBDA a : a.click.hit)
        misses == Misses(attempts)
        reactionTimes ==
          NonNull([k \in 1..Len(attempts) |-> attempts[k].timing.reactionTimeMs])
        movementTimes ==
          NonNull([k \in 1..Len(hits) |-> hits[k].timing.movementTimeMs])
        interTapTimes ==
          NonNull([k \in 1..Len(attempts) |-> attempts[k].timing.interTapMs])
        errorDists == NonNull([k \in 1..Len(hits) |-> hits[k].spatial.errorDistNorm])
        pathLengths == NonNull([k \in 1..Len(hits) |-> hits[k].spatial.pathLengthNorm])
        straightness == NonNull([k \in 1..Len(hits) |-> hits[k].spatial.straightness])
        meanSpeeds == NonNull([k \in 1..Len(hits) |-> hits[k].kinematics.meanSpeed])
        peakSpeeds == NonNull([k \in 1..Len(hits) |-> hits[k].kinematics.peakSpeed])
        throughputs == NonNull([k \in 1..Len(hits) |-> hits[k].fitts.throughput])
        IDs == NonNull([k \in 1..Len(hits) |-> hits[k].fitts.ID])
    IN  [ reactionTime_mean |-> mean(reactionTimes),
          reactionTime_median |-> median(reactionTimes),
          movementTime_mean |-> mean(movementTimes),
          movementTime_median |-> median(movementTimes),
          interTapTime_mean |-> mean(interTapTimes),
          errorDist_mean |-> mean(errorDists),
          pathLength_mean |-> mean(pathLengths),
          straightness_mean |-> mean(straightness),
          meanSpeed_mean |-> mean(meanSpeeds),
          peakSpeed_mean |-> mean(peakSpeeds),
          throughput_mean |-> mean(throughputs),
          ID_mean |-> mean(IDs),
          nAttempts |-> Len(attempts),
          nHits |-> Len(hits),
          nMisses |-> Len(misses),
          hitRate |-> IF Len(attempts) > 0 THEN Rat(Len(hits), Len(attempts))
                      ELSE RInt(0) ]

\* the keys of the object computeRoundFeatures returns
FeatureNames ==
  { "reactionTime_mean", "reactionTime_median", "movementTime_mean",
    "movementTime_median", "interTapTime_mean", "errorDist_mean",
    "pathLength_mean", "straightness_mean", "meanSpeed_mean", "peakSpeed_mean",
    "throughput_mean", "ID_mean", "nAttempts", "nHits", "nMisses", "hitRate" }

\* (a variant that stores the hit and miss counts under each other's name)
RoundSummaryDocSwapped(sessionId, userId, participantId, round, features) ==
  [ sessionId |-> sessionId, userId |-> userId, participantId |-> participantId,
    round |-> round,
    counts |-> [nTargets |-> features.nAttempts, nHits |-> features.nMisses,
                nMisses |-> features.nHits, hitRate |-> features.hitRate],
    features |-> features, featureVersion |-> "v1" ]

\* the document computeRoundSummary passes to findOneAndUpdate
RoundSummaryDoc(sessionId, userId, participantId, round, features) ==
  [ sessionId |-> sessionId, userId |-> userId, participantId |-> participantId,
    round |-> round,
    counts |-> [nTargets |-> features.nAttempts, nHits |-> features.nHits,
                nMisses |-> features.nMisses, hitRate |-> features.hitRate],
    features |-> features, featureVersion |-> "v1" ]

\* the key `r${r}_${key}`
Prefixed(r, key) == "r" \o ToString(r) \o "_" \o key

\* features?.key: undefined (Null) when the round has no features
Opt(features, key) == IF features = Null THEN Null ELSE features[key]

\* (a variant that takes the trend between the first two rounds with a value)
lastMinusFirstAdjacent(values) == RSub(values[2], values[1])

\* values[values.length - 1] - values[0]
lastMinusFirst(values) == RSub(values[Len(values)], values[1])

\* (a variant that writes the features of a round without the prefix)
RECURSIVE PerRoundUnprefixed(_, _)
PerRoundUnprefixed(rf, r) ==
  IF r = 0 THEN <<>>
  ELSE IF rf[r] = Null THEN PerRoundUnprefixed(rf, r - 1)
  ELSE rf[r] @@ PerRoundUnprefixed(rf, r - 1)

\* the loop `for (let r = 1; r <= 3; r++)` up to round r: the map allFeatures
\* (an assignment to a key replaces its value); <<>> is the empty map {}
RECURSIVE PerRound(_, _)
PerRound(rf, r) ==
  IF r = 0 THEN <<>>
  ELSE IF rf[r] = Null THEN PerRound(rf, r - 1)
  ELSE [key \in {Prefixed(r, k) : k \in DOMAIN rf[r]} |->
          rf[r][CHOOSE k \in DOMAIN rf[r] : Prefixed(r, k) = key]]
         @@ PerRound(rf, r - 1)

\* computeSessionFeatures after its three computeRoundFeatures calls:
\* rf = <<features1, features2, features3>>
computeSessionFeatures(rf) ==
  LET hitRates == NonNull([r \in 1..3 |-> Opt(rf[r], "hitRate")])
      throughputs == NonNull([r \in 1..3 |-> Opt(rf[r], "throughput_mean")])
      withHitRate ==
        IF Len(hitRates) > 1
        THEN ("hitRate_trend" :> lastMinusFirst(hitRates)) @@ PerRound(rf, 3)
        ELSE PerRound(rf, 3)
  IN  IF Len(throughputs) > 1
      THEN ("throughput_trend" :> lastMinusFirst(throughputs)) @@ withHitRate
      ELSE withHitRate

\* label || {level: 'unknown', source: 'none'}
DefaultLabel == [level |-> "unknown", source |-> "none"]

\* the document computeSessionSummary passes to findOneAndUpdate
SessionSummaryDoc(sessionId, userId, participantId, features, label) ==
  [ sessionId |-> sessionId, userId |-> userId, participantId |-> participantId,
    features |-> features, featureVersion |-> "v1",
    label |-> IF label = Null THEN DefaultLabel ELSE label ]

\* ---------------------------------------------------------------- Init
NoHistory == [samples |-> <<>>, attempts |-> <<>>, failed |-> {}]
IdleRemoval == [pc |-> "idle", sessionId |-> NoId, pending |-> {}]
IdleSummary ==
  [ pc |-> "idle", sessionId |-> NoId, participantId |-> NoId, round |-> 0,
    userId |-> NoId, attempts |-> <<>>, features |-> Null, matched |-> {},
    resp |-> <<>> ]

CallIds == 1..MaxCalls
IdleCall ==
  [ pc |-> "idle", kind |-> "none", sessionId |-> NoId, participantId |-> NoId,
    round |-> 0, label |-> Null, userId |-> NoId, rf |-> <<Null, Null, Null>>,
    features |-> Null, resp |-> <<>> ]

\* no extractAttemptFeatures call of its own
NoExtraction ==
  [ pc |-> "idle", samples |-> <<>>, spawnTms |-> 0, clickTms |-> 0,
    hasTarget |-> FALSE, target |-> [x |-> 0, radius |-> 0],
    prevClickTms |-> NoTms, result |-> <<>> ]

\* nothing is stored, no request is in progress
InitStore ==
  /\ sessions = {}
  /\ traceBuckets = {}
  /\ attemptBuckets = {}
  /\ roundSummaries = {}
  /\ sessionSummaries = {}
  /\ tasks = [t \in TaskIds |-> IdleTask]
  /\ removal = IdleRemoval
  /\ sent = [s \in SessionIds |-> [samples |-> 0, attempts |-> 0]]
  /\ history = [s \in SessionIds |-> NoHistory]
  /\ summary = IdleSummary
  /\ calls = [c \in CallIds |-> IdleCall]

Init == InitStore /\ extraction = NoExtraction

Pool(kind) == IF kind = "samples" THEN Trace ELSE AttemptPool

SetColl(kind, c) ==
  IF kind = "samples"
  THEN traceBuckets' = c /\ UNCHANGED attemptBuckets
  ELSE attemptBuckets' = c /\ UNCHANGED traceBuckets

\* ------------------------------------------------------------ controllers
\* (variants: one that looks the session up before it answers, one that
\* accepts an empty array)
LogBatchSessionFirst(t, kind, sid, uid, isArray, k) ==
  LET from == IF sid = NoId THEN 0 ELSE sent[sid][kind]
      batch == IF isArray THEN Slice(Pool(kind), from, k) ELSE <<>>
      req == [IdleTask EXCEPT !.kind = kind, !.sessionId = sid, !.userId = uid,
                              !.isArray = isArray, !.batch = batch,
                              !.known = SessionExists(sid)]
      status == IF sid = NoId \/ ~isArray \/ Len(batch) = 0 THEN 400
                ELSE IF ~SessionExists(sid) THEN 404 ELSE 200
  IN
  /\ k <= Len(Pool(kind)) - from
  /\ tasks' = [tasks EXCEPT ![t] =
        [req EXCEPT !.pc = IF status = 200 THEN "scheduled" ELSE "rejected",
                    !.enriched = IF kind = "samples" THEN batch ELSE <<>>,
                    !.resp = <<[status |-> status,
                                received |-> IF status = 200 THEN Len(batch) ELSE 0]>>]]
  /\ sent' = IF status = 200 THEN [sent EXCEPT ![sid][kind] = @ + Len(batch)] ELSE sent
  /\ UNCHANGED << sessions, traceBuckets, attemptBuckets, roundSummaries,
                  sessionSummaries, removal, history, summary, calls, extraction >>

LogBatchEmptyOk(t, kind, sid, uid, isArray, k) ==
  LET from == IF sid = NoId THEN 0 ELSE sent[sid][kind]
      batch == IF isArray THEN Slice(Pool(kind), from, k) ELSE <<>>
      req == [IdleTask EXCEPT !.kind = kind, !.sessionId = sid, !.userId = uid,
                              !.isArray = isArray, !.batch = batch,
                              !.known = SessionExists(sid)]
      ok == sid # NoId /\ isArray
  IN
  /\ k <= Len(Pool(kind)) - from
  /\ tasks' = [tasks EXCEPT ![t] =
        [req EXCEPT !.pc = IF ok THEN "scheduled" ELSE "rejected",
                    !.enriched = IF kind = "samples" THEN batch ELSE <<>>,
                    !.resp = <<[status |-> IF ok THEN 200 ELSE 400,
                                received |-> Len(batch)]>>]]
  /\ sent' = IF ok THEN [sent EXCEPT ![sid][kind] = @ + Len(batch)] ELSE sent
  /\ UNCHANGED << sessions, traceBuckets, attemptBuckets, roundSummaries,
                  sessionSummaries, removal, history, summary, calls, extraction >>

\* logPointerSamples / logAttempts up to setImmediate: validation, the
\* response, and the scheduling of the background task.  The client submits
\* the next k items of its stream; isArray = FALSE is a body whose
\* samples / attempts is not an array.
LogBatch(t, kind, sid, uid, isArray, k) ==
  LET from == IF sid = NoId THEN 0 ELSE sent[sid][kind]
      batch == IF isArray THEN Slice(Pool(kind), from, k) ELSE <<>>
      req == [IdleTask EXCEPT !.kind = kind, !.sessionId = sid, !.userId = uid,
                              !.isArray = isArray, !.batch = batch,
                              !.known = SessionExists(sid)]
  IN
  /\ k <= Len(Pool(kind)) - from
  /\ IF sid = NoId \/ ~isArray \/ Len(batch) = 0
     THEN /\ tasks' = [tasks EXCEPT ![t] =
                 [req EXCEPT !.pc = "rejected",
                             !.resp = <<[status |-> 400, received |-> 0]>>]]
          /\ UNCHANGED sent
     ELSE /\ tasks' = [tasks EXCEPT ![t] =
                 [req EXCEPT !.pc = "scheduled",
                             !.enriched = IF kind = "samples" THEN batch ELSE <<>>,
                             !.resp = <<[status |-> 200, received |-> Len(batch)]>>]]
          /\ sent' = [sent EXCEPT ![sid][kind] = @ + Len(batch)]
  /\ UNCHANGED << sessions, traceBuckets, attemptBuckets, roundSummaries,
                  sessionSummaries, removal, history, summary, calls, extraction >>

logPointerSamples(t, sid, uid, isArray, k) == LogBatch(t, "samples", sid, uid, isArray, k)

logAttempts(t, sid, uid, isArray, k) == LogBatch(t, "attempts", sid, uid, isArray, k)

\* ------------------------------------------- addSamples / addAttempts steps
\* The error thrown by addSamples / addAttempts is caught and logged by the
\* background task: the task ends, nothing else happens.
Fail(t) ==
  /\ tasks' = [tasks EXCEPT ![t].pc = "failed", ![t].ops = @ + 1]
  /\ history' = [history EXCEPT ![tasks[t].sessionId].failed = @ \cup {tasks[t].kind}]

\* (a variant that marks the bucket full as soon as the batch has filled it)
AfterBucketEager(task, local) ==
  LET r == Fill(local, task.enriched, task.i, task.kind)
      full == r.doc.count >= Capacity(task.kind)
      doc == IF full THEN [r.doc EXCEPT !.isFull = TRUE, !.dirty = @ \cup {"isFull"}]
             ELSE r.doc
  IN  [task EXCEPT !.doc = doc, !.i = r.i, !.ops = @ + 1,
                   !.pc = IF r.i = Len(task.enriched) THEN "save" ELSE "save_full"]

\* after a bucket is in hand: the synchronous pushes up to the next save
AfterBucket(task, local) ==
  LET r == Fill(local, task.enriched, task.i, task.kind)
  IN  [task EXCEPT !.doc = r.doc, !.i = r.i, !.ops = @ + 1,
                   !.pc = IF r.i = Len(task.enriched) THEN "save" ELSE "save_full"]

\* the array check, then const session = await Session.findOne({ sessionId })
SessionCheck(t) ==
  /\ tasks[t].pc = "scheduled"
  /\ IF tasks[t].isArray /\ Len(tasks[t].batch) > 0
        /\ SessionExists(tasks[t].sessionId)
     THEN /\ tasks' = [tasks EXCEPT
                 ![t].pc = IF tasks[t].kind = "attempts" THEN "samples" ELSE "find",
                 ![t].ops = @ + 1]
          /\ UNCHANGED history
     ELSE Fail(t)
  /\ UNCHANGED << sessions, traceBuckets, attemptBuckets, roundSummaries,
                  sessionSummaries, removal, sent, summary, calls, extraction >>

\* addAttempts: allSamples = await getSessionSamples(sessionId), then the
\* enrichment of the batch
LoadSamples(t) ==
  /\ tasks[t].pc = "samples"
  /\ \E order \in SortedBuckets(traceBuckets, tasks[t].sessionId) :
       tasks' = [tasks EXCEPT
         ![t].enriched = enrichedAttempts(tasks[t].batch, getSessionSamples(order, 0)),
         ![t].pc = "find", ![t].ops = @ + 1]
  /\ UNCHANGED << sessions, traceBuckets, attemptBuckets, roundSummaries,
                  sessionSummaries, removal, sent, history, summary,
                  calls, extraction >>

\* let bucket = await this.findOne({sessionId, isFull: false}).sort(...)
FindBucket(t) ==
  LET task == tasks[t]
      found == ActiveBuckets(Coll(task.kind), task.sessionId)
  IN
  /\ task.pc = "find"
  /\ IF found = {}
     THEN tasks' = [tasks EXCEPT ![t].pc = "presave", ![t].newNumber = 1,
                                 ![t].ops = @ + 1]
     ELSE \E d \in found :
            LET local == IF task.userId # NoId /\ d.userId = NoId
                         THEN [Local(d) EXCEPT !.userId = task.userId,
                                               !.dirty = {"userId"}]
                         ELSE Local(d)
            IN  tasks' = [tasks EXCEPT ![t] = AfterBucket(task, local)]
  /\ UNCHANGED << sessions, traceBuckets, attemptBuckets, roundSummaries,
                  sessionSummaries, removal, sent, history, summary,
                  calls, extraction >>

\* this.create(...): the pre('save') hook of a new document looks the
\* session up
PreSave(t) ==
  /\ tasks[t].pc = "presave"
  /\ IF SessionExists(tasks[t].sessionId)
     THEN /\ tasks' = [tasks EXCEPT ![t].pc = "insert", ![t].ops = @ + 1]
          /\ UNCHANGED history
     ELSE Fail(t)
  /\ UNCHANGED << sessions, traceBuckets, attemptBuckets, roundSummaries,
                  sessionSummaries, removal, sent, summary, calls, extraction >>

\* this.create(...): the insert, then the pushes up to the next save
Insert(t) ==
  LET task == tasks[t]
      doc == NewBucket(FreshId(Coll(task.kind)), task.sessionId, task.userId,
                       task.newNumber)
  IN
  /\ task.pc = "insert"
  /\ SetColl(task.kind, Coll(task.kind) \cup {doc})
  /\ tasks' = [tasks EXCEPT ![t] = AfterBucket(task, Local(doc))]
  /\ UNCHANGED << sessions, roundSummaries, sessionSummaries, removal, sent,
                  history, summary, calls, extraction >>

\* bucket.isFull = true; await bucket.save(); then this.create(...) begins
SaveFull(t) ==
  LET task == tasks[t]
      doc == [task.doc EXCEPT !.isFull = TRUE, !.dirty = @ \cup {"isFull"}]
  IN
  /\ task.pc = "save_full"
  /\ IF SaveOutcome(Coll(task.kind), doc, task.kind) = "ok"
     THEN /\ SetColl(task.kind, ApplySave(Coll(task.kind), doc))
          /\ tasks' = [tasks EXCEPT ![t].pc = "presave", ![t].doc = Saved(doc),
                         ![t].newNumber = doc.bucketNumber + 1, ![t].ops = @ + 1]
          /\ UNCHANGED history
     ELSE Fail(t) /\ UNCHANGED << traceBuckets, attemptBuckets >>
  /\ UNCHANGED << sessions, roundSummaries, sessionSummaries, removal, sent,
                  summary, calls, extraction >>

\* the final await bucket.save(); return bucket
SaveFinal(t) ==
  LET task == tasks[t]
  IN
  /\ task.pc = "save"
  /\ IF SaveOutcome(Coll(task.kind), task.doc, task.kind) = "ok"
     THEN /\ SetColl(task.kind, ApplySave(Coll(task.kind), task.doc))
          /\ tasks' = [tasks EXCEPT ![t].pc = "done", ![t].doc = Saved(task.doc),
                                    ![t].ops = @ + 1]
          /\ history' = [history EXCEPT
                           ![task.sessionId][task.kind] = @ \o task.enriched]
     ELSE Fail(t) /\ UNCHANGED << traceBuckets, attemptBuckets >>
  /\ UNCHANGED << sessions, roundSummaries, sessionSummaries, removal, sent,
                  summary, calls, extraction >>

\* ---------------------------------------------------------------- sessions
\* createSession: Session.findOneAndUpdate({sessionId}, {...}, {upsert: true});
\* userId has a unique sparse index
createSession(sid, uid) ==
  /\ ~\E s \in sessions : s.sessionId # sid /\ uid # NoId /\ s.userId = uid
  /\ sessions' = {s \in sessions : s.sessionId # sid}
                   \cup {[sessionId |-> sid, userId |-> uid]}
  /\ UNCHANGED << traceBuckets, attemptBuckets, roundSummaries, sessionSummaries,
                  tasks, removal, sent, history, summary, calls, extraction >>

\* session.remove(): the pre('remove') hook starts
RemoveBegin(sid) ==
  /\ removal.pc = "idle"
  /\ SessionExists(sid)
  /\ removal' = [pc |-> "buckets", sessionId |-> sid, pending |-> {"trace", "attempt"}]
  /\ UNCHANGED << sessions, traceBuckets, attemptBuckets, roundSummaries,
                  sessionSummaries, tasks, sent, history, summary, calls, extraction >>

\* Promise.all([MotorPointerTraceBucket.deleteMany, MotorAttemptBucket.deleteMany])
RemoveBuckets(which) ==
  /\ removal.pc = "buckets"
  /\ which \in removal.pending
  /\ IF which = "trace"
     THEN /\ traceBuckets' = {d \in traceBuckets : d.sessionId # removal.sessionId}
          /\ UNCHANGED attemptBuckets
     ELSE /\ attemptBuckets' = {d \in attemptBuckets : d.sessionId # removal.sessionId}
          /\ UNCHANGED traceBuckets
  /\ removal' = IF removal.pending = {which}
                THEN [removal EXCEPT !.pc = "summaries", !.pending = {"round", "session"}]
                ELSE [removal EXCEPT !.pending = @ \ {which}]
  /\ UNCHANGED << sessions, roundSummaries, sessionSummaries, tasks, sent,
                  history, summary, calls, extraction >>

\* Promise.all([MotorRoundSummary.deleteMany, MotorSessionSummary.deleteMany])
RemoveSummaries(which) ==
  /\ removal.pc = "summaries"
  /\ which \in removal.pending
  /\ IF which = "round"
     THEN /\ roundSummaries' = {d \in roundSummaries : d.sessionId # removal.sessionId}
          /\ UNCHANGED sessionSummaries
     ELSE /\ sessionSummaries' = {d \in sessionSummaries : d.sessionId # removal.sessionId}
          /\ UNCHANGED roundSummaries
  /\ removal' = IF removal.pending = {which}
                THEN [removal EXCEPT !.pc = "session", !.pending = {}]
                ELSE [removal EXCEPT !.pending = @ \ {which}]
  /\ UNCHANGED << sessions, traceBuckets, attemptBuckets, tasks, sent, history,
                  summary, calls, extraction >>

\* next(): the session document itself is removed
RemoveSession ==
  /\ removal.pc = "session"
  /\ sessions' = {s \in sessions : s.sessionId # removal.sessionId}
  /\ removal' = IdleRemoval
  /\ UNCHANGED << traceBuckets, attemptBuckets, roundSummaries, sessionSummaries,
                  tasks, sent, history, summary, calls, extraction >>

\* ---------------------------------------------------------- round summary
\* computeRoundSummary up to the first await: the validation of the body.
\* round = 0 is a missing round, participantId = NoId a missing participant.
computeRoundSummary(sid, pid, round) ==
  /\ summary.pc \in {"idle", "done"}
  /\ summary' =
       IF sid = NoId \/ pid = NoId \/ round = 0
       THEN [IdleSummary EXCEPT !.pc = "done", !.resp = <<[status |-> 400]>>]
       ELSE [IdleSummary EXCEPT !.pc = "session", !.sessionId = sid,
                                !.participantId = pid, !.round = round]
  /\ UNCHANGED << sessions, traceBuckets, attemptBuckets, roundSummaries,
                  sessionSummaries, tasks, removal, sent, history, calls, extraction >>

\* const session = await Session.findOne({ sessionId });
\* userId = session?.userId || null   (null is NoId)
SummarySession ==
  /\ summary.pc = "session"
  /\ \/ /\ ~SessionExists(summary.sessionId)
        /\ summary' = [summary EXCEPT !.pc = "features", !.userId = NoId]
     \/ \E s \in sessions :
          /\ s.sessionId = summary.sessionId
          /\ summary' = [summary EXCEPT !.pc = "features", !.userId = s.userId]
  /\ UNCHANGED << sessions, traceBuckets, attemptBuckets, roundSummaries,
                  sessionSummaries, tasks, removal, sent, history, calls, extraction >>

\* features = await computeRoundFeatures(sessionId, round); the 404 answer
\* when it is null
SummaryFeatures ==
  /\ summary.pc = "features"
  /\ \E order \in SortedBuckets(attemptBuckets, summary.sessionId) :
       LET attempts == getSessionAttempts(order, summary.round)
           features == computeRoundFeatures(attempts)
       IN  summary' =
             IF features = Null
             THEN [summary EXCEPT !.pc = "done", !.attempts = attempts,
                                  !.features = Null,
                                  !.resp = <<[status |-> 404]>>]
             ELSE [summary EXCEPT !.pc = "upsert", !.attempts = attempts,
                                  !.features = features]
  /\ UNCHANGED << sessions, traceBuckets, attemptBuckets, roundSummaries,
                  sessionSummaries, tasks, removal, sent, history, calls, extraction >>

\* (a variant that adds the new counts to those of the document it matches)
SummaryUpsertAccumulate ==
  LET doc == RoundSummaryDoc(summary.sessionId, summary.userId,
                             summary.participantId, summary.round,
                             summary.features)
      matched == {d \in roundSummaries :
                    d.sessionId = summary.sessionId /\ d.round = summary.round}
      nTargets == doc.counts.nTargets
                    + (IF matched = {} THEN 0
                       ELSE (CHOOSE d \in matched : TRUE).counts.nTargets)
  IN
  /\ summary.pc = "upsert"
  /\ roundSummaries' = (roundSummaries \ matched)
                         \cup {[doc EXCEPT !.counts.nTargets = nTargets]}
  /\ summary' = [summary EXCEPT !.pc = "done", !.matched = matched,
                                !.resp = <<[status |-> 200]>>]
  /\ UNCHANGED << sessions, traceBuckets, attemptBuckets, sessionSummaries,
                  tasks, removal, sent, history, calls, extraction >>

\* MotorRoundSummary.findOneAndUpdate({sessionId, round}, {...},
\* {upsert: true, new: true}), then res.json.  `matched` is the document the
\* filter matched, if any.
SummaryUpsert ==
  LET doc == RoundSummaryDoc(summary.sessionId, summary.userId,
                             summary.participantId, summary.round,
                             summary.features)
      matched == {d \in roundSummaries :
                    d.sessionId = summary.sessionId /\ d.round = summary.round}
  IN
  /\ summary.pc = "upsert"
  /\ roundSummaries' = (roundSummaries \ matched) \cup {doc}
  /\ summary' = [summary EXCEPT !.pc = "done", !.matched = matched,
                                !.resp = <<[status |-> 200]>>]
  /\ UNCHANGED << sessions, traceBuckets, attemptBuckets, sessionSummaries,
                  tasks, removal, sent, history, calls, extraction >>

\* getAttemptStats: GET of the attempt statistics of a session; the find of
\* getSessionAttempts is its only await, the answer carries the statistics
getAttemptStats(sid) ==
  /\ summary.pc \in {"idle", "done", "stats"}
  /\ \E order \in SortedBuckets(attemptBuckets, sid) :
       LET allAttempts == getSessionAttempts(order, 0)
       IN  summary' =
             [IdleSummary EXCEPT
                !.pc = "stats", !.sessionId = sid, !.attempts = allAttempts,
                !.resp = <<[status |-> 200,
                            data |-> getSessionStats(sid, allAttempts)]>>]
  /\ UNCHANGED << sessions, traceBuckets, attemptBuckets, roundSummaries,
                  sessionSummaries, tasks, removal, sent, history, calls, extraction >>

\* ------------------------------------------------- concurrent summary calls
\* The summary handlers as calls that interleave at every await.
Others == << sessions, traceBuckets, attemptBuckets, tasks, removal, sent,
             history, summary, extraction >>

\* res.status(status).json(...): the call ends; its locals are gone
Answer(call, status) ==
  [IdleCall EXCEPT !.pc = "done", !.kind = call.kind,
                   !.resp = <<[status |-> status]>>]

\* computeRoundSummary up to the first await (as above), for the call c
computeRoundSummaryCall(c, sid, pid, round) ==
  /\ calls' = [calls EXCEPT ![c] =
       IF sid = NoId \/ pid = NoId \/ round = 0
       THEN Answer([IdleCall EXCEPT !.kind = "round"], 400)
       ELSE [IdleCall EXCEPT !.pc = "session", !.kind = "round",
                             !.sessionId = sid, !.participantId = pid,
                             !.round = round]]
  /\ UNCHANGED << Others, roundSummaries, sessionSummaries >>

\* computeSessionSummary up to the first await: the validation of the body.
\* label = Null is a body without a label.
computeSessionSummary(c, sid, pid, label) ==
  /\ calls' = [calls EXCEPT ![c] =
       IF sid = NoId \/ pid = NoId
       THEN Answer([IdleCall EXCEPT !.kind = "session"], 400)
       ELSE [IdleCall EXCEPT !.pc = "session", !.kind = "session",
                             !.sessionId = sid, !.participantId = pid,
                             !.round = 1, !.label = label]]
  /\ UNCHANGED << Others, roundSummaries, sessionSummaries >>

\* const session = await Session.findOne({ sessionId }) of either handler
CallSession(c) ==
  /\ calls[c].pc = "session"
  /\ \/ /\ ~SessionExists(calls[c].sessionId)
        /\ calls' = [calls EXCEPT ![c].pc = "features", ![c].userId = NoId]
     \/ \E s \in sessions :
          /\ s.sessionId = calls[c].sessionId
          /\ calls' = [calls EXCEPT ![c].pc = "features", ![c].userId = s.userId]
  /\ UNCHANGED << Others, roundSummaries, sessionSummaries >>

\* one `await computeRoundFeatures(sessionId, round)`: the one of
\* computeRoundSummary (with its 404 answer), or the next of the three of
\* computeSessionFeatures, whose result follows the third
CallFeatures(c) ==
  LET call == calls[c]
  IN
  /\ call.pc = "features"
  /\ \E order \in SortedBuckets(attemptBuckets, call.sessionId) :
       LET features == computeRoundFeatures(getSessionAttempts(order, call.round))
           rf == [call.rf EXCEPT ![call.round] = features]
       IN  calls' = [calls EXCEPT ![c] =
             IF call.kind = "round"
             THEN IF features = Null
                  THEN Answer(call, 404)
                  ELSE [call EXCEPT !.pc = "upsert", !.features = features]
             ELSE IF call.round < 3
                  THEN [call EXCEPT !.rf = rf, !.round = @ + 1]
                  ELSE [call EXCEPT !.rf = rf, !.pc = "upsert",
                                    !.features = computeSessionFeatures(rf)]]
  /\ UNCHANGED << Others, roundSummaries, sessionSummaries >>

\* the summary collection a call writes, and the documents its filter matches
CallMatches(call) ==
  IF call.kind = "round"
  THEN {d \in roundSummaries :
          d.sessionId = call.sessionId /\ d.round = call.round}
  ELSE {d \in sessionSummaries : d.sessionId = call.sessionId}

\* the update document of the call
CallDoc(call) ==
  IF call.kind = "round"
  THEN RoundSummaryDoc(call.sessionId, call.userId, call.participantId,
                       call.round, call.features)
  ELSE SessionSummaryDoc(call.sessionId, call.userId, call.participantId,
                         call.features, call.label)

\* (a variant in which a session summary written without a label keeps the
\* label of the document it replaces)
CallWriteKeepLabel(call, matched, doc) ==
  IF call.kind = "round"
  THEN /\ roundSummaries' = (roundSummaries \ matched) \cup {doc}
       /\ UNCHANGED sessionSummaries
  ELSE /\ sessionSummaries' =
            (sessionSummaries \ matched)
              \cup (IF call.label = Null /\ matched # {}
                    THEN {[doc EXCEPT !.label = d.label] : d \in matched}
                    ELSE {doc})
       /\ UNCHANGED roundSummaries

\* the matched documents replaced by doc (a $set of every field of it)
CallWrite(call, matched, doc) ==
  IF call.kind = "round"
  THEN /\ roundSummaries' = (roundSummaries \ matched) \cup {doc}
       /\ UNCHANGED sessionSummaries
  ELSE /\ sessionSummaries' = (sessionSummaries \ matched) \cup {doc}
       /\ UNCHANGED roundSummaries

\* findOneAndUpdate(filter, doc, {upsert: true, new: true}): a matched
\* document is updated in one step; with no match the insert follows
CallUpsert(c) ==
  LET call == calls[c]
      matched == CallMatches(call)
  IN
  /\ call.pc = "upsert"
  /\ IF matched = {}
     THEN /\ calls' = [calls EXCEPT ![c].pc = "insert"]
          /\ UNCHANGED << roundSummaries, sessionSummaries >>
     ELSE /\ CallWrite(call, matched, CallDoc(call))
          /\ calls' = [calls EXCEPT ![c] = Answer(call, 200)]
  /\ UNCHANGED Others

\* (a variant without the unique index: the insert always goes through)
CallInsertNoIndex(c) ==
  LET call == calls[c]
  IN
  /\ call.pc = "insert"
  /\ CallWrite(call, {}, CallDoc(call))
  /\ calls' = [calls EXCEPT ![c] = Answer(call, 200)]
  /\ UNCHANGED Others

\* the insert of an upsert under the unique index on {sessionId, round} /
\* sessionId: when another call has inserted the key meanwhile, the server
\* either retries the operation as an update or reports the duplicate key
\* (E11000), which the handler answers with 500
CallInsert(c) ==
  LET call == calls[c]
      matched == CallMatches(call)
  IN
  /\ call.pc = "insert"
  /\ \/ /\ CallWrite(call, matched, CallDoc(call))
        /\ calls' = [calls EXCEPT ![c] = Answer(call, 200)]
     \/ /\ matched # {}
        /\ calls' = [calls EXCEPT ![c] = Answer(call, 500)]
        /\ UNCHANGED << roundSummaries, sessionSummaries >>
  /\ UNCHANGED Others

\* updateLabel up to the await: the validation of the label
updateLabel(c, sid, label) ==
  /\ calls' = [calls EXCEPT ![c] =
       IF label = Null \/ label.level = NoId
       THEN Answer([IdleCall EXCEPT !.kind = "label"], 400)
       ELSE [IdleCall EXCEPT !.pc = "update", !.kind = "label",
                             !.sessionId = sid, !.label = label]]
  /\ UNCHANGED << Others, roundSummaries, sessionSummaries >>

\* (a variant that upserts: it creates the summary it does not find)
UpdateLabelUpsert(c) ==
  LET call == calls[c]
      matched == {d \in sessionSummaries : d.sessionId = call.sessionId}
  IN
  /\ call.pc = "update"
  /\ sessionSummaries' =
       IF matched = {}
       THEN sessionSummaries
              \cup {SessionSummaryDoc(call.sessionId, NoId, NoId, Null, call.label)}
       ELSE (sessionSummaries \ matched)
              \cup {[d EXCEPT !.label = call.label] : d \in matched}
  /\ calls' = [calls EXCEPT ![c] = Answer(call, 200)]
  /\ UNCHANGED << Others, roundSummaries >>

\* MotorSessionSummary.findOneAndUpdate({ sessionId }, { label }, { new: true })
\* and the answer: 404 when no summary matched
UpdateLabel(c) ==
  LET call == calls[c]
      matched == {d \in sessionSummaries : d.sessionId = call.sessionId}
  IN
  /\ call.pc = "update"
  /\ sessionSummaries' =
       (sessionSummaries \ matched)
         \cup {[d EXCEPT !.label = call.label] : d \in matched}
  /\ calls' = [calls EXCEPT
       ![c] = Answer(call, IF matched = {} THEN 404 ELSE 200)]
  /\ UNCHANGED << Others, roundSummaries >>

\* ------------------------------------------------------------ specifications
TaskStep(t) ==
  \/ SessionCheck(t)
  \/ LoadSamples(t)
  \/ FindBucket(t)
  \/ PreSave(t)
  \/ Insert(t)
  \/ SaveFull(t)
  \/ SaveFinal(t)

\* no background task and no removal is in progress
Quiet ==
  /\ \A t \in TaskIds : tasks[t].pc \in {"idle", "rejected", "done", "failed"}
  /\ removal.pc = "idle"

\* Concurrent ingestion for one session id: requests arrive at any time,
\* their background tasks interleave at every await, and the session is
\* created and removed meanwhile.
Arrive ==
  \E t \in TaskIds, sid \in {NoId, "s1"}, isArray \in BOOLEAN, k \in 0..MaxBatch :
    /\ tasks[t].pc = "idle"
    /\ \A u \in 1..(t - 1) : tasks[u].pc # "idle"
    /\ \/ logPointerSamples(t, sid, "u1", isArray, k)
       \/ logAttempts(t, sid, "u1", isArray, k)

Next ==
  \/ Arrive
  \/ \E t \in TaskIds : TaskStep(t)
  \/ createSession("s1", "u1")
  \/ RemoveBegin("s1")
  \/ \E which \in {"trace", "attempt"} : RemoveBuckets(which)
  \/ \E which \in {"round", "session"} : RemoveSummaries(which)
  \/ RemoveSession

Spec == Init /\ [][Next]_vars

\* Concurrent ingestion while the session stays: no removal.
NextConc ==
  \/ Arrive
  \/ \E t \in TaskIds : TaskStep(t)
  \/ createSession("s1", "u1")

SpecConc == Init /\ [][NextConc]_vars

\* One attempt batch and the sample batches of the session, all
\* acknowledged: the sample batches are stored one after the other, the
\* background task of the attempt batch runs at any time in between.
ArriveLate ==
  /\ SessionExists("s1")
  /\ \E k \in 1..MaxBatch :
       \/ /\ tasks[1].pc = "idle"
          /\ logAttempts(1, "s1", "u1", TRUE, k)
       \/ /\ tasks[2].pc \in {"idle", "done"}
          /\ logPointerSamples(2, "s1", "u1", TRUE, k)

NextLate ==
  \/ ArriveLate
  \/ \E t \in 1..2 : TaskStep(t)
  \/ createSession("s1", "u1")

SpecLate == Init /\ [][NextLate]_vars

\* Non-overlapping calls: a request arrives only when the previous one's
\* background task has ended; no session is removed.
ArriveSeq ==
  \E sid \in {NoId, "s1"}, isArray \in BOOLEAN, k \in 0..MaxBatch :
    /\ Quiet
    /\ \/ logPointerSamples(1, sid, "u1", isArray, k)
       \/ logAttempts(1, sid, "u1", isArray, k)

NextSeq ==
  \/ ArriveSeq
  \/ TaskStep(1)
  \/ createSession("s1", "u1")

SpecSeq == Init /\ [][NextSeq]_vars

\* Ingestion and round summaries, one call at a time: a batch arrives when
\* no summary request is in progress, a summary is requested when no
\* background task is.
ArriveAgg ==
  \E k \in 1..MaxBatch :
    /\ Quiet
    /\ summary.pc \in {"idle", "done"}
    /\ \/ logPointerSamples(1, "s1", "u1", TRUE, k)
       \/ logAttempts(1, "s1", "u1", TRUE, k)

RequestSummary ==
  \E sid \in {NoId, "s1"}, pid \in {NoId, "p1"}, round \in 0..3 :
    Quiet /\ computeRoundSummary(sid, pid, round)

NextAgg ==
  \/ ArriveAgg
  \/ TaskStep(1)
  \/ createSession("s1", "u1")
  \/ RequestSummary
  \/ SummarySession
  \/ SummaryFeatures
  \/ SummaryUpsert

SpecAgg == Init /\ [][NextAgg]_vars

\* Ingestion for one session and its attempt statistics, one call at a time.
ArriveStats ==
  \E k \in 1..MaxBatch :
    /\ Quiet
    /\ \/ logPointerSamples(1, "s1", "u1", TRUE, k)
       \/ logAttempts(1, "s1", "u1", TRUE, k)

RequestStats == Quiet /\ getAttemptStats("s1")

NextStats ==
  \/ ArriveStats
  \/ TaskStep(1)
  \/ createSession("s1", "u1")
  \/ RequestStats

SpecStats == Init /\ [][NextStats]_vars

\* Summary calls made while a batch is being stored: batches arrive one
\* after the other for the created session, a round or session summary is
\* requested at any time and its awaits interleave with the steps of the
\* background task.
ArriveRead ==
  \E k \in 1..MaxBatch :
    /\ Quiet
    /\ SessionExists("s1")
    /\ calls[1].pc = "idle"
    /\ \/ logPointerSamples(1, "s1", "u1", TRUE, k)
       \/ logAttempts(1, "s1", "u1", TRUE, k)

CallArriveRead ==
  /\ calls[1].pc = "idle"
  /\ \/ \E round \in 1..3 : computeRoundSummaryCall(1, "s1", "p1", round)
     \/ computeSessionSummary(1, "s1", "p1", Null)

NextRead ==
  \/ ArriveRead
  \/ TaskStep(1)
  \/ createSession("s1", "u1")
  \/ CallArriveRead
  \/ CallSession(1)
  \/ CallFeatures(1)
  \/ CallUpsert(1)
  \/ CallInsert(1)

SpecRead == Init /\ [][NextRead]_vars

\* MaxCalls summary calls that interleave with each other at every await,
\* made once the session's attempts are in: attempts arrive, one at a time,
\* until the first summary call is made.
Labels ==
  << [level |-> "mild", source |-> "clinician"],
     [level |-> NoId, source |-> "clinician"] >>

ArriveSum ==
  /\ Quiet
  /\ SessionExists("s1")
  /\ \A c \in CallIds : calls[c].pc = "idle"
  /\ logAttempts(1, "s1", "u1", TRUE, 1)

CallArrive ==
  \E c \in CallIds :
    /\ Quiet
    /\ calls[c].pc = "idle"
    /\ \A b \in 1..(c - 1) : calls[b].pc # "idle"
    /\ \/ \E round \in 0..3 : computeRoundSummaryCall(c, "s1", "p1", round)
       \/ \E sid \in {NoId, "s1"}, label \in {Null, Labels[1]} :
            computeSessionSummary(c, sid, "p1", label)
       \/ \E label \in {Null} \cup Range(Labels) : updateLabel(c, "s1", label)

CallStep(c) ==
  \/ CallSession(c)
  \/ CallFeatures(c)
  \/ CallUpsert(c)
  \/ CallInsert(c)
  \/ UpdateLabel(c)

NextSum ==
  \/ ArriveSum
  \/ TaskStep(1)
  \/ createSession("s1", "u1")
  \/ CallArrive
  \/ \E c \in CallIds : CallStep(c)

SpecSum == Init /\ [][NextSum]_vars

\* Ingestion, session summaries and labels, one call at a time: a batch
\* arrives for the created session when no summary call is in progress, a
\* summary call is made when no background task is.
ArriveSess ==
  \E k \in 1..MaxBatch :
    /\ Quiet
    /\ SessionExists("s1")
    /\ calls[1].pc \in {"idle", "done"}
    /\ \/ logPointerSamples(1, "s1", "u1", TRUE, k)
       \/ logAttempts(1, "s1", "u1", TRUE, k)

CallArriveSess ==
  /\ Quiet
  /\ calls[1].pc \in {"idle", "done"}
  /\ \/ \E sid \in {NoId, "s1"}, label \in {Null, Labels[1]} :
          computeSessionSummary(1, sid, "p1", label)
     \/ \E label \in {Null} \cup Range(Labels) : updateLabel(1, "s1", label)

NextSess ==
  \/ ArriveSess
  \/ TaskStep(1)
  \/ createSession("s1", "u1")
  \/ CallArriveSess
  \/ CallStep(1)

SpecSess == Init /\ [][NextSess]_vars

\* Session summaries and labels one call at a time, closed by one more
\* session summary request: the requests of slot 1 follow one another, and
\* once the request of slot 2 is made no other arrives.
ArriveLabel ==
  /\ calls[2].pc = "idle"
  /\ ArriveSess

CallArriveLabel ==
  /\ Quiet
  /\ calls[1].pc \in {"idle", "done"}
  /\ calls[2].pc = "idle"
  /\ \/ \E label \in {Null, Labels[1]} : computeSessionSummary(1, "s1", "p1", label)
     \/ updateLabel(1, "s1", Labels[1])
     \/ \E label \in {Null, Labels[1]} : computeSessionSummary(2, "s1", "p1", label)

NextLabel ==
  \/ ArriveLabel
  \/ TaskStep(1)
  \/ createSession("s1", "u1")
  \/ CallArriveLabel
  \/ \E c \in 1..2 : CallStep(c)

SpecLabel == Init /\ [][NextLabel]_vars

\* The extractor on its own: extractAttemptFeatures is called once on
\* arguments drawn from the recorded streams (any run of consecutive samples
\* of one of them), spawn and click times around it, targets at the end of
\* the move with and without a radius, a missing target, and a previous
\* click time or none.
Streams == {Trace, Still, Overshoot}

Runs(s) ==
  {SubSeq(s, from, to) : from \in 1..(Len(s) + 1), to \in 0..Len(s)}

ExtractionInputs ==
  { [NoExtraction EXCEPT !.pc = "called", !.samples = samples,
                         !.spawnTms = spawnTms, !.clickTms = clickTms,
                         !.hasTarget = hasTarget,
                         !.target = [x |-> 30, radius |-> radius],
                         !.prevClickTms = prevClickTms] :
      samples \in UNION {Runs(s) : s \in Streams}, spawnTms \in {10, 20}, clickTms \in {40, 50},
      hasTarget \in BOOLEAN, radius \in {0, 5}, prevClickTms \in {NoTms, 30} }

InitExt == InitStore /\ extraction \in ExtractionInputs

\* the call returns (or throws)
Extract ==
  /\ extraction.pc = "called"
  /\ extraction' =
       [extraction EXCEPT
          !.pc = "returned",
          !.result = extractAttemptFeatures(extraction.samples,
                       extraction.spawnTms, extraction.clickTms,
                       extraction.hasTarget, extraction.target,
                       extraction.prevClickTms)]
  /\ UNCHANGED << sessions, traceBuckets, attemptBuckets, roundSummaries,
                  sessionSummaries, tasks, removal, sent, history, summary,
                  calls >>

NextExt == Extract

SpecExt == InitExt /\ [][NextExt]_vars

\* ================================================================= claims
ValidBatch(task) == task.sessionId # NoId /\ task.isArray /\ Len(task.batch) > 0
Ack(task) == <<[status |-> 200, received |-> Len(task.batch)]>>
Background == {"samples", "find", "presave", "insert", "save_full", "save"}
BucketsOf(coll, sid) == {d \in coll : d.sessionId = sid}
\* how many times `item` is stored in the buckets of `coll`
Stored(coll, item) ==
  LET RECURSIVE total(_)
      total(ds) ==
        IF ds = {} THEN 0
        ELSE LET d == CHOOSE x \in ds : TRUE
             IN  Cardinality({k \in 1..Len(d.items) : d.items[k] = item})
                   + total(ds \ {d})
  IN  total(coll)

\* C1: the first addSamples call that stores anything for a session, with
\* N samples and N > capacity C, leaves exactly ceil(N / C) buckets, each
\* holding at most C samples, and getSessionSamples returns the N samples
\* in the order submitted.
C1_MonotonicChunking ==
  LET task == tasks[1]
      sid == task.sessionId
      N == Len(task.batch)
      C == MAX_TRACE_SAMPLES_PER_BUCKET
      mine == BucketsOf(traceBuckets, sid)
  IN  ( /\ task.kind = "samples" /\ task.pc = "done"
        /\ history[sid].samples = task.batch
        /\ N > C )
      => /\ Cardinality(mine) = (N + C - 1) \div C
         /\ \A d \in mine : Len(d.items) <= C /\ d.count <= C
         /\ \A order \in SortedBuckets(traceBuckets, sid) :
              getSessionSamples(order, 0) = task.batch

C1_Witness ==
  /\ tasks[1].kind = "samples" /\ tasks[1].pc = "done"
  /\ history["s1"].samples = tasks[1].batch
  /\ Len(tasks[1].batch) > MAX_TRACE_SAMPLES_PER_BUCKET
  /\ Cardinality(traceBuckets) >= 2

\* C2 (as claimed): once two concurrent append calls of the same kind for a
\* session have both finished, every item of both batches is stored exactly
\* once, each batch's items are in their submitted order, and every bucket's
\* count equals the length of its item array and is at most the capacity.
C2_ConcurrentAppendsSerialized ==
  \A t, u \in TaskIds :
    ( /\ t # u /\ tasks[t].pc = "done" /\ tasks[u].pc = "done"
      /\ tasks[t].kind = tasks[u].kind /\ tasks[t].sessionId = tasks[u].sessionId )
    => LET coll == Coll(tasks[t].kind)
       IN  /\ \A x \in Range(tasks[t].enriched) \cup Range(tasks[u].enriched) :
                Stored(coll, x) = 1
           /\ \A order \in SortedBuckets(coll, tasks[t].sessionId) :
                SelectSeq(IF tasks[t].kind = "samples"
                          THEN getSessionSamples(order, 0)
                          ELSE getSessionAttempts(order, 0),
                          LAMBDA x : x \in Range(tasks[t].enriched))
                  = tasks[t].enriched
           /\ \A d \in coll :
                d.count = Len(d.items) /\ d.count <= Capacity(tasks[t].kind)

\* C3 (as claimed): a non-empty attempt batch submitted through logAttempts
\* for a sessionId that has no session is answered with an unknown-session
\* error, not with a success acknowledgment.
C3_UnknownSessionRejected ==
  \A t \in TaskIds :
    ( tasks[t].kind = "attempts" /\ ValidBatch(tasks[t]) /\ ~tasks[t].known )
    => tasks[t].resp = <<[status |-> 404, received |-> 0]>>

\* C4 (as claimed): every stored sample bucket and attempt bucket has a
\* sessionId for which a session exists.
C4_BucketsHaveSession ==
  \A d \in traceBuckets \cup attemptBuckets : SessionExists(d.sessionId)

\* C5: a batch that passes basic validation gets exactly one response, the
\* success acknowledgment with received = batch length; it is sent before the
\* background task has performed any store operation, and it is the same
\* whether the task ends in success or in failure.
C5_AckBeforeBackground ==
  \A t \in TaskIds :
    ( tasks[t].pc # "idle" /\ ValidBatch(tasks[t]) )
    => /\ tasks[t].resp = Ack(tasks[t])
       /\ tasks[t].pc \in {"scheduled", "done", "failed"} \cup Background
       /\ tasks[t].pc = "scheduled" => tasks[t].ops = 0

C5_Witness ==
  /\ tasks[1].pc = "failed" /\ tasks[1].ops > 0
  /\ tasks[1].resp = Ack(tasks[1])
  /\ ~tasks[1].known

\* C6: a request whose sessionId is missing, or whose samples / attempts is
\* not an array or is empty, is answered with a validation error, schedules
\* no background task, and leaves both stores as they were.
C6_ValidationError ==
  /\ [](\A t \in TaskIds :
          ( tasks[t].pc # "idle" /\ ~ValidBatch(tasks[t]) )
          => /\ tasks[t].resp = <<[status |-> 400, received |-> 0]>>
             /\ tasks[t].pc = "rejected" /\ tasks[t].ops = 0)
  /\ [][\A t \in TaskIds :
          ( tasks'[t].pc = "rejected" /\ tasks'[t] # tasks[t] )
          => UNCHANGED << traceBuckets, attemptBuckets >>]_vars

C6_Witness ==
  /\ tasks[1].pc = "rejected" /\ tasks[1].sessionId = "s1"
  /\ tasks[1].isArray /\ tasks[1].batch = <<>>
  /\ traceBuckets # {}

\* C7: after non-overlapping addAttempts calls that all succeeded,
\* getSessionAttempts returns every stored attempt exactly once, batch after
\* batch in the order the calls completed, each batch in submission order.
C7_AttemptsInOriginalOrder ==
  \A sid \in SessionIds :
    ( Quiet /\ "attempts" \notin history[sid].failed )
    => \A order \in SortedBuckets(attemptBuckets, sid) :
         getSessionAttempts(order, 0) = history[sid].attempts

C7_Witness ==
  /\ Quiet /\ "attempts" \notin history["s1"].failed
  /\ tasks[1].kind = "attempts" /\ tasks[1].pc = "done"
  /\ Len(history["s1"].attempts) > Len(tasks[1].batch)
  /\ Cardinality(attemptBuckets) >= 2

\* the stored attempts of a session with a given round, as (bucket, index)
StoredOfRound(sid, round) ==
  UNION { { <<d.id, k>> : k \in {j \in 1..Len(d.items) : d.items[j].round = round} }
          : d \in BucketsOf(attemptBuckets, sid) }
StoredHitsOfRound(sid, round) ==
  UNION { { <<d.id, k>> : k \in {j \in 1..Len(d.items) :
                                   d.items[j].round = round /\ d.items[j].click.hit} }
          : d \in BucketsOf(attemptBuckets, sid) }

\* C8: computeRoundFeatures(sessionId, round) returns null exactly when the
\* store holds no attempt of that session with that round, and then
\* computeRoundSummary answers 404 'no attempts found', ends, and leaves the
\* RoundSummary collection as it was.
C8_NullIffNoAttempts ==
  [][ ( summary.pc = "features" /\ summary'.pc # "features" )
      => /\ (summary'.features = Null)
              <=> (StoredOfRound(summary.sessionId, summary.round) = {})
         /\ summary'.features = Null
              => /\ summary'.pc = "done"
                 /\ summary'.resp = <<[status |-> 404]>>
                 /\ roundSummaries' = roundSummaries ]_vars

C8_Witness ==
  /\ summary.pc = "done" /\ summary.resp = <<[status |-> 404]>>
  /\ summary.sessionId = "s1"
  /\ BucketsOf(attemptBuckets, "s1") # {}
  /\ StoredOfRound("s1", summary.round) = {}
  /\ roundSummaries # {}

\* C9: the round summary stored for a round with at least one stored attempt
\* has counts.nTargets = the number of stored attempts of the round, nHits =
\* the number of those with click.hit, nMisses = nTargets - nHits and
\* hitRate = nHits / nTargets, a number between 0 and 1, never null.
C9_Counts ==
  [][ ( summary.pc = "upsert" /\ summary'.pc = "done" )
      => LET n == Cardinality(StoredOfRound(summary.sessionId, summary.round))
             h == Cardinality(StoredHitsOfRound(summary.sessionId, summary.round))
             docs == {d \in roundSummaries' : d.sessionId = summary.sessionId
                                             /\ d.round = summary.round}
         IN  /\ n > 0
             /\ Cardinality(docs) = 1
             /\ \A d \in docs :
                  /\ d.counts.nTargets = n
                  /\ d.counts.nHits = h
                  /\ d.counts.nMisses = n - h
                  /\ d.counts.hitRate # Null
                  /\ d.counts.hitRate = Rat(h, n)
                  /\ RLeq(RInt(0), d.counts.hitRate)
                  /\ RLeq(d.counts.hitRate, RInt(1)) ]_vars

C9_Witness ==
  \E d \in roundSummaries :
    /\ d.sessionId = "s1" /\ d.round = 1
    /\ d.counts = [nTargets |-> 2, nHits |-> 1, nMisses |-> 1, hitRate |-> Rat(1, 2)]
    /\ Cardinality(StoredOfRound("s1", 1)) = 2

\* C10 (as claimed): the reaction-time, movement-time and inter-tap
\* aggregates of computeRoundFeatures are taken over all attempts of the
\* round, the spatial, kinematic and Fitts aggregates over its hits only.
C10_TimingOverAllAttempts ==
  summary.pc = "upsert"
  => LET all == summary.attempts
         hits == SelectSeq(all, LAMBDA a : a.click.hit)
         Over(s, F(_)) == NonNull([k \in 1..Len(s) |-> F(s[k])])
         f == summary.features
     IN  /\ f.reactionTime_mean = mean(Over(all, LAMBDA a : a.timing.reactionTimeMs))
         /\ f.movementTime_mean = mean(Over(all, LAMBDA a : a.timing.movementTimeMs))
         /\ f.interTapTime_mean = mean(Over(all, LAMBDA a : a.timing.interTapMs))
         /\ f.errorDist_mean = mean(Over(hits, LAMBDA a : a.spatial.errorDistNorm))
         /\ f.pathLength_mean = mean(Over(hits, LAMBDA a : a.spatial.pathLengthNorm))
         /\ f.straightness_mean = mean(Over(hits, LAMBDA a : a.spatial.straightness))
         /\ f.meanSpeed_mean = mean(Over(hits, LAMBDA a : a.kinematics.meanSpeed))
         /\ f.peakSpeed_mean = mean(Over(hits, LAMBDA a : a.kinematics.peakSpeed))
         /\ f.throughput_mean = mean(Over(hits, LAMBDA a : a.fitts.throughput))
         /\ f.ID_mean = mean(Over(hits, LAMBDA a : a.fitts.ID))

\* C11: a computeRoundSummary call that finds a summary stored for its
\* (sessionId, round) and reads as many attempts of the round as that summary
\* counted (nothing was appended to the round in between) computes the same
\* aggregates and leaves one summary for the key, with the counts and
\* features the earlier call stored.
C11_RecomputeIdempotent ==
  \A old \in summary.matched :
    ( /\ summary.pc = "done" /\ summary.resp = <<[status |-> 200]>>
      /\ old.counts.nTargets = Len(summary.attempts) )
    => LET docs == {d \in roundSummaries : d.sessionId = summary.sessionId
                                           /\ d.round = summary.round}
       IN  /\ summary.features = old.features
           /\ Cardinality(docs) = 1
           /\ \A d \in docs : d.counts = old.counts /\ d.features = old.features

C11_Witness ==
  /\ summary.pc = "done" /\ summary.resp = <<[status |-> 200]>>
  /\ \E old \in summary.matched :
       /\ old.counts.nTargets = Len(summary.attempts)
       /\ old.counts.nTargets = 2
       /\ old \in roundSummaries

\* C12: in every reachable state, whatever the sequence or interleaving of
\* computeRoundSummary, computeSessionSummary and updateLabel calls, at most
\* one round summary exists per (sessionId, round) and at most one session
\* summary per sessionId.
C12_UniqueSummaryKeys ==
  /\ \A d1 \in roundSummaries, d2 \in roundSummaries :
       (d1.sessionId = d2.sessionId /\ d1.round = d2.round) => d1 = d2
  /\ \A d1 \in sessionSummaries, d2 \in sessionSummaries :
       d1.sessionId = d2.sessionId => d1 = d2

\* two calls raced for the same key: one is about to insert the key the
\* other has inserted meanwhile, with a different document
C12_Witness ==
  \E c \in CallIds :
    /\ calls[c].pc = "insert"
    /\ calls[c].kind = "session"
    /\ CallMatches(calls[c]) # {}
    /\ CallDoc(calls[c]) \notin sessionSummaries
    /\ CallDoc(calls[c]).features # <<>>

\* the keys of a session feature map that carry the prefix r{k}_
RoundKeys(features, k) ==
  {key \in DOMAIN features : \E n \in FeatureNames : key = Prefixed(k, n)}

\* the session summary call whose computeSessionFeatures has returned
SessionFeaturesReturned(c) ==
  calls[c].kind = "session" /\ calls[c].pc = "upsert"

\* C13: the map computeSessionFeatures returns contains keys with the prefix
\* r{k}_ (k in 1..3) exactly when round k has at least one stored attempt,
\* and each r{k}_<feature> equals <feature> of computeRoundFeatures for
\* round k.
C13_PerRoundKeys ==
  \A c \in CallIds :
    SessionFeaturesReturned(c) =>
      \A order \in SortedBuckets(attemptBuckets, calls[c].sessionId), k \in 1..3 :
        LET attempts == getSessionAttempts(order, k)
            features == calls[c].features
        IN  /\ (RoundKeys(features, k) # {}) <=> (Len(attempts) >= 1)
            /\ Len(attempts) >= 1 =>
                 \A n \in FeatureNames :
                   /\ Prefixed(k, n) \in DOMAIN features
                   /\ features[Prefixed(k, n)] = computeRoundFeatures(attempts)[n]

\* a session summary over a store with attempts of rounds 1 and 3 and none
\* of round 2
C13_Witness ==
  /\ SessionFeaturesReturned(1)
  /\ RoundKeys(calls[1].features, 1) # {}
  /\ RoundKeys(calls[1].features, 2) = {}
  /\ RoundKeys(calls[1].features, 3) # {}
  /\ calls[1].features["r1_nAttempts"] = 2

\* the rounds whose computeRoundFeatures result has a non-null value under name
RoundsWith(order, name) ==
  {k \in 1..3 :
     LET attempts == getSessionAttempts(order, k)
     IN  Len(attempts) >= 1 /\ computeRoundFeatures(attempts)[name] # Null}

Highest(rounds) == CHOOSE k \in rounds : \A j \in rounds : j <= k
Lowest(rounds) == CHOOSE k \in rounds : \A j \in rounds : k <= j

\* the trend key is present iff two rounds or more have a value under name,
\* and is the value of the highest such round minus the one of the lowest
TrendIs(features, order, trend, name) ==
  LET rounds == RoundsWith(order, name)
      value(k) == computeRoundFeatures(getSessionAttempts(order, k))[name]
  IN  /\ (trend \in DOMAIN features) <=> (Cardinality(rounds) >= 2)
      /\ Cardinality(rounds) >= 2 =>
           features[trend] = RSub(value(Highest(rounds)), value(Lowest(rounds)))

\* C14: hitRate_trend is present iff at least two rounds have a non-null
\* hitRate, and equals the hitRate of the highest-numbered such round minus
\* that of the lowest-numbered one; throughput_trend likewise over the rounds
\* with a non-null throughput_mean.
C14_Trends ==
  \A c \in CallIds :
    SessionFeaturesReturned(c) =>
      \A order \in SortedBuckets(attemptBuckets, calls[c].sessionId) :
        /\ TrendIs(calls[c].features, order, "hitRate_trend", "hitRate")
        /\ TrendIs(calls[c].features, order, "throughput_trend", "throughput_mean")

\* three rounds have a hit rate, rounds 1 and 3 only have a throughput, and
\* the hit rates of the first two rounds differ from those of the outer two
C14_Witness ==
  /\ SessionFeaturesReturned(1)
  /\ \E order \in SortedBuckets(attemptBuckets, calls[1].sessionId) :
       /\ RoundsWith(order, "hitRate") = {1, 2, 3}
       /\ RoundsWith(order, "throughput_mean") = {1, 3}
  /\ calls[1].features["hitRate_trend"] = Rat(1, 2)
  /\ calls[1].features["throughput_trend"] # RInt(0)

\* the session summaries of the session of call c
SummariesOf(c) == {d \in sessionSummaries : d.sessionId = calls[c].sessionId}

\* the status of the answer of a finished call
Status(call) == call.resp[1].status

\* C15: updateLabel on an existing session summary replaces only its label
\* and leaves features, participantId and featureVersion as they were (no
\* attempt is read, nothing is recomputed); for a session without a summary,
\* or a label without a level, it answers with an error and creates or
\* changes no session summary.
C15_LabelOnly ==
  [][ \A c \in CallIds :
        /\ (calls[c].kind = "label" /\ calls[c].pc = "update"
              /\ calls'[c].pc = "done") =>
             /\ calls[c].label # Null /\ calls[c].label.level # NoId
             /\ {d \in sessionSummaries' : d.sessionId # calls[c].sessionId}
                  = sessionSummaries \ SummariesOf(c)
             /\ roundSummaries' = roundSummaries
             /\ IF SummariesOf(c) = {}
                THEN /\ Status(calls'[c]) = 404
                     /\ sessionSummaries' = sessionSummaries
                ELSE /\ Status(calls'[c]) = 200
                     /\ Cardinality(sessionSummaries') = Cardinality(sessionSummaries)
                     /\ \A old \in SummariesOf(c) :
                          \E new \in sessionSummaries' :
                            /\ new.sessionId = old.sessionId
                            /\ new.label = calls[c].label
                            /\ new.features = old.features
                            /\ new.participantId = old.participantId
                            /\ new.featureVersion = old.featureVersion
        /\ (calls[c].pc \in {"idle", "done"} /\ calls'[c] # calls[c]
              /\ calls'[c].kind = "label") =>
             /\ sessionSummaries' = sessionSummaries
             /\ \/ /\ calls'[c].pc = "update"
                   /\ calls'[c].label # Null /\ calls'[c].label.level # NoId
                \/ /\ calls'[c].pc = "done"
                   /\ Status(calls'[c]) = 400 ]_vars

\* a label was set on a summary whose features no longer are those of the
\* stored attempts
C15_Witness ==
  /\ calls[1].pc = "done" /\ calls[1].kind = "label" /\ Status(calls[1]) = 200
  /\ \E d \in sessionSummaries, order \in SortedBuckets(attemptBuckets, "s1") :
       /\ d.label = Labels[1]
       /\ d.features # <<>>
       /\ d.features # computeSessionFeatures(
            [k \in 1..3 |-> computeRoundFeatures(getSessionAttempts(order, k))])

\* the attempts task t has stored: the last Len(batch) attempts of the session
StoredBatch(t, order) ==
  LET all == getSessionAttempts(order, 0)
  IN  SubSeq(all, Len(all) - Len(tasks[t].batch) + 1, Len(all))

\* an addAttempts call of task t has returned
AttemptsStored(t) == tasks[t].kind = "attempts" /\ tasks[t].pc = "done"

\* C16: the previous click time of position i > 0 of a batch is the click
\* time of position i - 1 of the same batch, so the stored interTapMs is
\* click.tms[i] - click.tms[i - 1] when both exist; position 0 of every batch
\* is stored with interTapMs null, even when earlier batches hold clicks.
C16_InterTapWithinBatch ==
  \A t \in TaskIds :
    AttemptsStored(t) =>
      \A order \in SortedBuckets(attemptBuckets, tasks[t].sessionId) :
        LET batch == tasks[t].batch
            stored == StoredBatch(t, order)
        IN  \A i \in 1..Len(batch) :
              /\ stored[i].attemptId = batch[i].attemptId
              /\ i = 1 => stored[i].timing.interTapMs = Null
              /\ ( i > 1 /\ batch[i].click.tms # NoTms
                         /\ batch[i - 1].click.tms # NoTms )
                   => stored[i].timing.interTapMs
                        = RInt(batch[i].click.tms - batch[i - 1].click.tms)

\* the batch <<a5>> is stored after the batch that began <<a1, a2>>: a2 has
\* the interval to a1, a5 has none although a1 and a2 were clicked before
C16_Witness ==
  /\ AttemptsStored(1)
  /\ tasks[1].batch[1].attemptId = "a5"
  /\ \E order \in SortedBuckets(attemptBuckets, "s1") :
       LET all == getSessionAttempts(order, 0)
       IN  /\ Len(all) >= 3
           /\ all[1].click.tms = 50 /\ all[2].click.tms = 40
           /\ all[2].timing.interTapMs = RInt(0 - 10)
           /\ all[Len(all)].attemptId = "a5"
           /\ all[Len(all)].timing.interTapMs = Null

\* the pointer samples stored for a session
StoredSamples(sid) ==
  UNION {Range(d.items) : d \in BucketsOf(traceBuckets, sid)}

\* C17: an attempt that was not clicked, or whose session had no stored
\* pointer sample when it was processed, is stored with the basic features:
\* kinematics and fitts empty, movementTimeMs null, reactionTimeMs the
\* attempt's own recorded reaction time when it has one, interTapMs from the
\* previous click time; the extractor is not called for it.
C17_BasicFeatures ==
  \A t \in TaskIds :
    AttemptsStored(t) =>
      \A order \in SortedBuckets(attemptBuckets, tasks[t].sessionId) :
        LET batch == tasks[t].batch
            stored == StoredBatch(t, order)
        IN  \A i \in 1..Len(batch) :
              ( ~batch[i].click.clicked
                  \/ StoredSamples(tasks[t].sessionId) = {} )
              => /\ stored[i].kinematics = NoKinematics
                 /\ stored[i].fitts = NoFitts
                 /\ stored[i].timing.movementTimeMs = Null
                 /\ batch[i].reactionTimeMs # Null
                      => stored[i].timing.reactionTimeMs = batch[i].reactionTimeMs
                 /\ stored[i].timing.interTapMs =
                      IF i > 1 /\ batch[i - 1].click.tms # NoTms
                               /\ batch[i].click.tms # NoTms
                      THEN RInt(batch[i].click.tms - batch[i - 1].click.tms)
                      ELSE Null

\* a3, never clicked, is stored with its own reaction time while the samples
\* of the session are stored and the extractor ran for its neighbour a2
C17_Witness ==
  /\ AttemptsStored(1)
  /\ Cardinality(StoredSamples("s1")) >= 4
  /\ \E order \in SortedBuckets(attemptBuckets, "s1") :
       LET stored == StoredBatch(1, order)
       IN  /\ Len(stored) >= 2
           /\ stored[Len(stored)].attemptId = "a3"
           /\ stored[Len(stored)].timing.reactionTimeMs = RInt(7)
           /\ stored[Len(stored) - 1].timing.movementTimeMs # Null

\* the extractor was called for position i of the batch of task t and threw
\* (the samples of the session are those the task loaded: no other call ran)
ExtractorThrew(t, i) ==
  LET attempt == tasks[t].batch[i]
  IN  \E order \in SortedBuckets(traceBuckets, tasks[t].sessionId) :
        LET allSamples == getSessionSamples(order, 0)
        IN  /\ Len(allSamples) > 0
            /\ attempt.click.clicked
            /\ extractAttemptFeatures(allSamples, attempt.spawnTms,
                 attempt.click.tms, attempt.hasTarget, attempt.target, NoTms).threw

\* C18 (as claimed): when the extractor throws for an attempt of a batch,
\* that attempt is stored with the basic features and every other attempt of
\* the batch is stored too: the N attempts of the batch are appended in
\* submission order.
C18_BatchSurvivesThrow ==
  \A t \in TaskIds :
    ( /\ tasks[t].kind = "attempts"
      /\ tasks[t].pc \in {"done", "failed"}
      /\ \E i \in 1..Len(tasks[t].batch) : ExtractorThrew(t, i) )
    => /\ tasks[t].pc = "done"
       /\ \A order \in SortedBuckets(attemptBuckets, tasks[t].sessionId) :
            LET batch == tasks[t].batch
                stored == StoredBatch(t, order)
            IN  \A i \in 1..Len(batch) :
                  /\ stored[i].attemptId = batch[i].attemptId
                  /\ ExtractorThrew(t, i) =>
                       /\ stored[i].kinematics = NoKinematics
                       /\ stored[i].fitts = NoFitts
                       /\ stored[i].timing.movementTimeMs = Null

\* the samples of the extraction call that lie in [spawnTms, clickTms]
InWindow ==
  {i \in 1..Len(extraction.samples) :
     /\ extraction.samples[i].tms >= extraction.spawnTms
     /\ extraction.samples[i].tms <= extraction.clickTms}

\* C19: extractAttemptFeatures with fewer than 4 samples in [spawnTms,
\* clickTms] returns the minimal result: reactionTimeMs = clickTms - spawnTms,
\* interTapMs = clickTms - prevClickTms when a previous click time is given
\* and null otherwise, and every spatial, kinematic and Fitts field null.
C19_MinimalResult ==
  ( extraction.pc = "returned" /\ Cardinality(InWindow) < 4 )
  => LET r == extraction.result
     IN  /\ ~r.threw
         /\ r.timing.reactionTimeMs = RInt(extraction.clickTms - extraction.spawnTms)
         /\ r.timing.interTapMs =
              IF extraction.prevClickTms # NoTms
              THEN RInt(extraction.clickTms - extraction.prevClickTms)
              ELSE Null
         /\ r.timing.movementTimeMs = Null
         /\ \A f \in DOMAIN r.spatial : r.spatial[f] = Null
         /\ \A f \in DOMAIN r.kinematics : r.kinematics[f] = Null
         /\ \A f \in DOMAIN r.fitts : r.fitts[f] = Null

\* a call with three samples in the window and a previous click time
C19_Witness ==
  /\ extraction.pc = "returned"
  /\ Cardinality(InWindow) = 3
  /\ Len(extraction.samples) = 5
  /\ extraction.hasTarget
  /\ extraction.result.timing.reactionTimeMs = RInt(20)
  /\ extraction.result.timing.interTapMs = RInt(10)

\* C20: for an attempt whose target.radius is 0, extractAttemptFeatures
\* returns errorDistNorm = null, fitts.ID = null and throughput = null, and
\* raises no exception.
C20_ZeroRadius ==
  ( extraction.pc = "returned" /\ extraction.hasTarget
      /\ extraction.target.radius = 0 )
  => LET r == extraction.result
     IN  /\ ~r.threw
         /\ r.spatial.errorDistNorm = Null
         /\ r.fitts.ID = Null
         /\ r.fitts.throughput = Null

\* a full extraction (five samples in the window, a movement time, a path)
\* for a target of radius 0
C20_Witness ==
  /\ extraction.pc = "returned"
  /\ extraction.hasTarget /\ extraction.target.radius = 0
  /\ Cardinality(InWindow) = 5
  /\ extraction.result.timing.movementTimeMs = RInt(30)
  /\ extraction.result.spatial.pathLengthNorm = RInt(30)
  /\ extraction.result.fitts.W = RInt(0)

\* the moving segment of the extraction call: the window from the sample
\* before the first displacement on
MovingSegment ==
  LET seg == SelectSeq(extraction.samples,
               LAMBDA p : p.tms >= extraction.spawnTms /\ p.tms <= extraction.clickTms)
  IN  SubSeq(seg, MoveStartIdx(seg), Len(seg))

\* C21: for every attempt whose moving segment has path length zero (all its
\* samples at one position), extractAttemptFeatures returns
\* spatial.straightness = null and raises no exception.
C21_ZeroPathStraightness ==
  ( /\ extraction.pc = "returned" /\ extraction.hasTarget
    /\ Cardinality(InWindow) >= 4
    /\ \A i \in 1..Len(MovingSegment) : MovingSegment[i].x = MovingSegment[1].x )
  => /\ ~extraction.result.threw
     /\ extraction.result.spatial.straightness = Null

\* a full extraction over five samples at rest 0.030 away from the target
C21_Witness ==
  /\ extraction.pc = "returned" /\ extraction.hasTarget
  /\ extraction.samples = Still
  /\ Cardinality(InWindow) = 5
  /\ extraction.result.spatial.pathLengthNorm = RInt(0)
  /\ extraction.result.spatial.directDistNorm = RInt(30)
  /\ extraction.result.timing.movementTimeMs = RInt(40)

\* the extraction call ran past the sample-count check with a target
FullExtraction ==
  extraction.pc = "returned" /\ extraction.hasTarget /\ Cardinality(InWindow) >= 4

\* the moving segment approaches the target by more than 0.001, passes
\* through it, recedes by more than 0.001 to a point inside the gate of
\* 4 x radius, and comes back
OvershootsOnce ==
  LET m == MovingSegment
      tx == extraction.target.x
      away(i) == Abs(m[i].x - tx)
  IN  \E i \in 3..(Len(m) - 1) :
        /\ away(i - 1) - away(i - 2) < -1
        /\ away(i) - away(i - 1) > 1
        /\ (m[i - 2].x - tx) * (m[i].x - tx) < 0
        /\ away(i) < 4 * extraction.target.radius
        /\ away(i + 1) < away(i)

\* C22: the overshootCount extractAttemptFeatures returns is the maximum of
\* the three detector counts (reversals of the distance inside 4 x radius,
\* reversals in the last 30% of a moving segment of more than 5 samples,
\* oscillations of the position inside the gate); a path that approaches
\* the target, passes through it and returns inside the gate, with distance
\* deltas beyond 0.001, has overshootCount >= 1.
C22_OvershootIsMaximum ==
  FullExtraction =>
    LET m == MovingSegment
        d == DistToTarget(m, extraction.target)
        gate == 4 * extraction.target.radius
        counts == { distanceReversals(d, gate),
                    finalPhaseOvershoots(m, extraction.target),
                    oscillationCount(m, d, gate) }
        overshootCount == extraction.result.kinematics.overshootCount
    IN  /\ overshootCount \in counts
        /\ \A c \in counts : c <= overshootCount
        /\ OvershootsOnce => overshootCount >= 1

\* the whole Overshoot stream against a target of radius 0.005: the three
\* detectors count 2, 1 and 3, and the result is 3
C22_Witness ==
  /\ FullExtraction
  /\ extraction.samples = Overshoot
  /\ extraction.spawnTms = 10 /\ extraction.clickTms = 50
  /\ extraction.target.radius = 5
  /\ OvershootsOnce
  /\ LET d == DistToTarget(MovingSegment, extraction.target)
     IN  /\ distanceReversals(d, 20) = 2
         /\ finalPhaseOvershoots(MovingSegment, extraction.target) = 1
         /\ oscillationCount(MovingSegment, d, 20) = 3
  /\ extraction.result.kinematics.overshootCount = 3

\* the stored values of one timing or Fitts feature, nulls left out
Known(attempts, F(_)) == NonNull([k \in 1..Len(attempts) |-> F(attempts[k])])

\* C23 (as claimed): a null reactionTimeMs, movementTimeMs or throughput is
\* left out of the averages getSessionStats reports instead of counted as 0,
\* and an average over no non-null value is null.
C23_NullExcludedFromAverages ==
  summary.pc = "stats"
  => \A round \in 1..3 :
       LET attempts == SelectSeq(summary.attempts, LAMBDA a : a.round = round)
           hits == SelectSeq(attempts, LAMBDA a : a.click.hit)
           stats == summary.resp[1].data.rounds[round]
       IN  /\ stats.avgReactionTime =
                mean(Known(attempts, LAMBDA a : a.timing.reactionTimeMs))
           /\ stats.avgMovementTime =
                mean(Known(attempts, LAMBDA a : a.timing.movementTimeMs))
           /\ stats.avgThroughput =
                mean(Known(hits, LAMBDA a : a.fitts.throughput))

\* an addAttempts call for session sid is between two of its awaits
AddAttemptsInFlight(sid) ==
  \E t \in TaskIds :
    /\ tasks[t].kind = "attempts" /\ tasks[t].sessionId = sid
    /\ tasks[t].pc \in Background

\* what the computeRoundFeatures call that call c just awaited returned
Returned(c) ==
  IF calls[c].kind = "round" THEN calls'[c].features
  ELSE calls'[c].rf[calls[c].round]

\* C24: computeRoundFeatures and computeSessionFeatures only read: they
\* leave every sample bucket, attempt bucket and summary as it was, and,
\* also while an addAttempts call for the same session is in flight, they
\* return without error features with nHits + nMisses = nAttempts, counted
\* over the attempts saved so far.
C24_FeaturesOnlyRead ==
  [][ \A c \in CallIds :
        ( calls[c].pc = "features" /\ calls'[c] # calls[c] )
        => LET sid == calls[c].sessionId
               saved == StoredOfRound(sid, calls[c].round)
               hits == StoredHitsOfRound(sid, calls[c].round)
               f == Returned(c)
           IN  /\ traceBuckets' = traceBuckets
               /\ attemptBuckets' = attemptBuckets
               /\ roundSummaries' = roundSummaries
               /\ sessionSummaries' = sessionSummaries
               /\ tasks' = tasks
               /\ calls'[c].resp # <<[status |-> 500]>>
               /\ (f = Null) <=> (saved = {})
               /\ f # Null
                    => /\ f.nHits + f.nMisses = f.nAttempts
                       /\ f.nAttempts = Cardinality(saved)
                       /\ f.nHits = Cardinality(hits) ]_vars

\* a session summary call has read round 1 while an addAttempts call for the
\* session was saving: it counted the attempt already saved and not the ones
\* of the batch still in flight
C24_Witness ==
  /\ AddAttemptsInFlight("s1")
  /\ tasks[1].pc = "save"
  /\ calls[1].kind = "session" /\ calls[1].pc = "features" /\ calls[1].round = 2
  /\ calls[1].rf[1] # Null
  /\ calls[1].rf[1].nAttempts = 1
  /\ calls[1].rf[1].nHits + calls[1].rf[1].nMisses = 1
  /\ Cardinality(StoredOfRound("s1", 1)) = 1

\* the buckets of session sid in one store are numbered 1..k, once each
NumberedFromOne(coll, sid) ==
  LET mine == BucketsOf(coll, sid)
  IN  /\ {d.bucketNumber : d \in mine} = 1..Cardinality(mine)
      /\ \A d, e \in mine : d.bucketNumber = e.bucketNumber => d = e

\* count is the length of the item array, at most the capacity, and the
\* capacity when the bucket is marked full
CountsItems(coll, capacity) ==
  \A d \in coll :
    /\ d.count = Len(d.items)
    /\ d.count <= capacity
    /\ d.isFull => d.count = capacity

\* C25: after any sequence of non-overlapping append calls the buckets of a
\* session are numbered exactly 1..k in each store, every bucket's count is
\* the length of its item array and at most the capacity, a bucket is marked
\* full only when its count is the capacity, and a bucket marked full is
\* never modified again.
C25_BucketsWellFormed ==
  /\ [](Quiet =>
          /\ \A sid \in SessionIds :
               /\ NumberedFromOne(traceBuckets, sid)
               /\ NumberedFromOne(attemptBuckets, sid)
          /\ CountsItems(traceBuckets, MAX_TRACE_SAMPLES_PER_BUCKET)
          /\ CountsItems(attemptBuckets, MAX_ATTEMPTS_PER_BUCKET))
  /\ [][ /\ \A d \in traceBuckets : d.isFull => d \in traceBuckets'
         /\ \A d \in attemptBuckets : d.isFull => d \in attemptBuckets' ]_vars

\* two append calls later: a full first bucket and a second one, in both
\* stores
C25_Witness ==
  /\ Quiet /\ tasks[1].pc = "done"
  /\ Len(history["s1"].samples) > MAX_TRACE_SAMPLES_PER_BUCKET
  /\ Len(history["s1"].attempts) > MAX_ATTEMPTS_PER_BUCKET
  /\ \E d \in traceBuckets : d.isFull /\ d.bucketNumber = 1
  /\ \E d \in attemptBuckets : d.isFull /\ d.bucketNumber = 1
  /\ \E d \in attemptBuckets : ~d.isFull /\ d.bucketNumber = 2 /\ d.count >= 1

\* C26 (as claimed): once the removal of a session completes, no sample
\* bucket, attempt bucket, round summary or session summary with its
\* sessionId remains, also when a background append for the session was in
\* flight during the removal.
C26_RemovalLeavesNothing ==
  [][ ( removal.pc = "session" /\ removal'.pc = "idle" )
      => \A d \in traceBuckets' \cup attemptBuckets'
                    \cup roundSummaries' \cup sessionSummaries' :
           d.sessionId # removal.sessionId ]_vars

\* at most one bucket of session sid is open in the store, and it has the
\* highest number
OneOpenBucket(coll, sid) ==
  \A d \in BucketsOf(coll, sid) :
    ~d.isFull => \A e \in BucketsOf(coll, sid) \ {d} :
                   e.isFull /\ e.bucketNumber < d.bucketNumber

\* a step on the store: an open bucket that is at capacity gets no item, it
\* is only marked full; and a bucket added to a session that has buckets is
\* empty, carries the next number and follows a bucket already marked full
RollOver(coll, next, capacity) ==
  /\ \A d \in coll :
       ( ~d.isFull /\ d.count = capacity )
       => \/ d \in next
          \/ [d EXCEPT !.isFull = TRUE] \in next
  /\ \A n \in next \ coll :
       ( (\A d \in coll : d.id # n.id) /\ BucketsOf(coll, n.sessionId) # {} )
       => /\ n.items = <<>> /\ n.count = 0 /\ ~n.isFull
          /\ \E d \in BucketsOf(coll, n.sessionId) :
               /\ d.isFull /\ d.count = capacity
               /\ n.bucketNumber = d.bucketNumber + 1
               /\ \A e \in BucketsOf(coll, n.sessionId) :
                    e.bucketNumber <= d.bucketNumber

\* C27: in every state reached by non-overlapping append calls each session
\* has at most one bucket with isFull = false per store, the highest-numbered
\* one; a bucket that reaches capacity at the end of a batch stays
\* isFull = false until the next append, which marks it full and opens bucket
\* number + 1 before it writes any item.
C27_SingleOpenBucket ==
  /\ [](\A sid \in SessionIds :
          /\ OneOpenBucket(traceBuckets, sid)
          /\ OneOpenBucket(attemptBuckets, sid))
  /\ [][ /\ RollOver(traceBuckets, traceBuckets', MAX_TRACE_SAMPLES_PER_BUCKET)
         /\ RollOver(attemptBuckets, attemptBuckets', MAX_ATTEMPTS_PER_BUCKET)
         /\ ( tasks[1].pc = "save" /\ tasks'[1].pc = "done" )
            => \A d \in Coll(tasks[1].kind)' :
                 d.id = tasks[1].doc.id => ~d.isFull ]_vars

\* the next append has marked the bucket its predecessor left at capacity
\* full and opened bucket 2, still empty
C27_Witness ==
  /\ tasks[1].kind = "attempts" /\ tasks[1].pc = "save"
  /\ Len(history["s1"].attempts) = MAX_ATTEMPTS_PER_BUCKET
  /\ \E d \in attemptBuckets :
       d.bucketNumber = 1 /\ d.isFull /\ d.items = history["s1"].attempts
  /\ \E d \in attemptBuckets :
       d.bucketNumber = 2 /\ ~d.isFull /\ d.items = <<>>

\* C28: computeSessionSummary called without a label for a session whose
\* session summary has a label set replaces the features and overwrites
\* that label with {level: 'unknown', source: 'none'}.
C28_LabelOverwritten ==
  [][ \A c \in CallIds :
        ( /\ calls[c].kind = "session" /\ calls[c].label = Null
          /\ calls[c].pc \in {"upsert", "insert"}
          /\ calls'[c].pc = "done" /\ Status(calls'[c]) = 200
          /\ \E old \in SummariesOf(c) : old.label # DefaultLabel )
        => /\ \E new \in sessionSummaries' : new.sessionId = calls[c].sessionId
           /\ \A new \in sessionSummaries' :
                new.sessionId = calls[c].sessionId
                => /\ new.label = [level |-> "unknown", source |-> "none"]
                   /\ new.features = calls[c].features ]_vars

\* the last request of slot 1 set the label of the summary of s1 to
\* Labels[1]; the session summary request of slot 2 that followed has
\* answered, and the summary carries the default label
C28_Witness ==
  /\ calls[1].pc = "done" /\ calls[1].kind = "label" /\ Status(calls[1]) = 200
  /\ calls[2].pc = "done" /\ calls[2].kind = "session" /\ Status(calls[2]) = 200
  /\ \E d \in sessionSummaries :
       /\ d.sessionId = "s1"
       /\ d.label = DefaultLabel
       /\ d.features # <<>>

\* the store of one kind holds what the successful calls for sid appended
\* and nothing else: their items in order, in ceil(N / capacity) buckets
OnlySuccessfulBatches(coll, sid, appended, capacity) ==
  /\ \A order \in SortedBuckets(coll, sid) :
       Flatten([k \in 1..Len(order) |-> order[k].items]) = appended
  /\ Cardinality(BucketsOf(coll, sid)) = (Len(appended) + capacity - 1) \div capacity
  /\ \A d \in BucketsOf(coll, sid) :
       d.isFull => \E e \in BucketsOf(coll, sid) : e.bucketNumber > d.bucketNumber

\* C29 (as claimed): an append call that ends in an error leaves the store
\* exactly as it was before the call: no item of the failed batch is stored
\* and no bucket is created or marked full, also when the batch had rolled
\* over into a new bucket before the failing save.
C29_FailedAppendLeavesStore ==
  \A t \in TaskIds :
    tasks[t].pc = "failed"
    => LET sid == tasks[t].sessionId
       IN  /\ OnlySuccessfulBatches(traceBuckets, sid, history[sid].samples,
                                    MAX_TRACE_SAMPLES_PER_BUCKET)
           /\ OnlySuccessfulBatches(attemptBuckets, sid, history[sid].attempts,
                                    MAX_ATTEMPTS_PER_BUCKET)

\* the stored samples of session sid inside the window of attempt a
Covering(sid, a) ==
  {x \in StoredSamples(sid) : x.tms >= a.spawnTms /\ x.tms <= a.click.tms}

\* the derived blocks are empty: the basic or the minimal features
BasicOrMinimal(a) ==
  /\ a.timing.movementTimeMs = Null
  /\ a.spatial = NoSpatial /\ a.kinematics = NoKinematics /\ a.fitts = NoFitts

\* the attempts stored in the buckets of a collection
StoredAttempts(coll) == UNION {Range(d.items) : d \in coll}

\* C30: the derived feature blocks of a stored attempt are computed once,
\* from the pointer samples stored when its batch is processed, and never
\* change afterwards: a batch whose background task loads the samples before
\* those covering an attempt's window are stored gets the basic or minimal
\* features for it, what is stored is what was computed then, and samples
\* that arrive later update no stored attempt.
C30_FeaturesComputedOnce ==
  [][ /\ \A t \in TaskIds :
           ( tasks[t].kind = "attempts" /\ tasks[t].pc = "samples"
             /\ tasks'[t].pc = "find" )
           => \A i \in 1..Len(tasks[t].batch) :
                Cardinality(Covering(tasks[t].sessionId, tasks[t].batch[i])) < 4
                => BasicOrMinimal(tasks'[t].enriched[i])
      /\ StoredAttempts(attemptBuckets') \ StoredAttempts(attemptBuckets)
           \subseteq UNION { Range(tasks[t].enriched) :
                              t \in {u \in TaskIds : tasks[u].kind = "attempts"
                                                      /\ tasks'[u] # tasks[u]} }
      /\ \A d \in attemptBuckets :
           \E e \in attemptBuckets' :
             /\ e.id = d.id
             /\ Len(e.items) >= Len(d.items)
             /\ SubSeq(e.items, 1, Len(d.items)) = d.items ]_vars

\* a1 was stored with empty derived blocks; the five samples of its window
\* were stored afterwards, and a1 enriched now would carry kinematics
C30_Witness ==
  /\ tasks[1].kind = "attempts" /\ tasks[1].pc = "done"
  /\ tasks[2].kind = "samples" /\ tasks[2].pc = "done"
  /\ Cardinality(Covering("s1", tasks[1].batch[1])) = 5
  /\ \E a \in StoredAttempts(attemptBuckets) :
       a.attemptId = "a1" /\ BasicOrMinimal(a)
  /\ \E order \in SortedBuckets(traceBuckets, "s1") :
       ~BasicOrMinimal(EnrichAttempt(tasks[1].batch, 1, getSessionSamples(order, 0)))

====
